---- MODULE Spec2Model ----
(***************************************************************************)
(* A model of ec2-to-terraform.py (class EC2ToTerraform): the converter     *)
(* object, the describe / generate / write life cycle, and the pure text    *)
(* emitters it is built from.                                               *)
(*                                                                          *)
(* Text.  A Python str is modelled as the sequence of its physical lines    *)
(* (what str.split('\n') returns); a line is a sequence of tokens, each a   *)
(* TLA+ string, whose concatenation is the line.  The empty str is the one  *)
(* empty line << <<>> >>.  Labels that the code inspects character by       *)
(* character (names, tag values) are sequences of one-character tokens.     *)
(***************************************************************************)
EXTENDS Integers, Sequences, FiniteSets, TLC

VARIABLES
    pc,                       \* where the process is: constructed, described, open, opened,
                              \*   written, returned, exited, raised
    exit_code,                \* the status of sys.exit, or None while running
    error,                    \* which step made the process exit (None: none)
    instance_data,            \* self.instance_data (NoData: None)
    volumes_data,             \* self.volumes_data
    network_interfaces_data,  \* self.network_interfaces_data
    elastic_ips_data,         \* self.elastic_ips_data
    output_file,              \* generate_terraform's argument (None: not given)
    clock,                    \* datetime.utcnow() of the running generation
    tf_config,                \* generate_terraform's list tf_config
    full_config,              \* generate_terraform's full_config (NoText before)
    dest,                     \* the content of the file at the output path (NoFile: none)
    dest_before,              \* the content of that file when generate_terraform was called
    opens,                    \* open() calls of the running generation
    runs,                     \* the generations that returned: <<[now, doc]>>
    name,        \* harness: the label handed to _sanitize_resource_name
    sanitized,   \* harness: results of the successive applications
    tags,        \* harness: the tag list handed to _format_tags
    tag_text,    \* harness: what _format_tags returned (NoText before)
    tool,             \* which cleanup script runs main(): "route53", "eip" (None: neither)
    args,             \* its parsed command line: [delete, dry_run, force]
    account,          \* what the AWS account answers to the script's listing calls
    cpc,              \* where main() is: idle, start, scanned, prompt, deleting, cleaned, exited
    dry_run,          \* self.dry_run
    answer,           \* what the operator typed at the confirmation prompt (None: not asked)
    cursor,           \* the position of the deletion loop in its list
    api_calls,        \* the delete_hosted_zone / release_address calls issued, with their outcome
    cleanup_exit,     \* the status main() exited with (None while running)
    empty_zones,      \* Route53ZoneCleanup.empty_zones
    non_empty_zones,  \* Route53ZoneCleanup.non_empty_zones
    deleted_zones,    \* Route53ZoneCleanup.deleted_zones
    failed_deletes,   \* Route53ZoneCleanup.failed_deletes
    unassociated_eips,  \* ElasticIPCleanup.unassociated_eips
    associated_eips,    \* ElasticIPCleanup.associated_eips
    released_eips,      \* ElasticIPCleanup.released_eips
    failed_releases     \* ElasticIPCleanup.failed_releases

object_vars == <<instance_data, volumes_data, network_interfaces_data, elastic_ips_data>>
process_vars == <<pc, exit_code, error, output_file, clock, tf_config, full_config,
                  dest, dest_before, opens, runs>>
harness_vars == <<name, sanitized, tags, tag_text>>
run_vars == <<tool, args, account, cpc, dry_run, answer, cursor, api_calls, cleanup_exit>>
zone_vars == <<empty_zones, non_empty_zones, deleted_zones, failed_deletes>>
eip_vars == <<unassociated_eips, associated_eips, released_eips, failed_releases>>
cleanup_vars == <<run_vars, zone_vars, eip_vars>>
vars == <<object_vars, process_vars, harness_vars, cleanup_vars>>

(***************************************************************************)
(* Bounds                                                                   *)
(***************************************************************************)
MaxNameLen == 3
MaxTags == 3
MaxPasses == 2

(***************************************************************************)
(* Text helpers                                                             *)
(***************************************************************************)
None == "None"
NoText == << <<"None">> >>
EmptyStr == << <<>> >>

RECURSIVE Spaces(_)
Spaces(n) == IF n = 0 THEN "" ELSE " " \o Spaces(n - 1)

RECURSIVE Flatten(_)
Flatten(ss) == IF ss = <<>> THEN <<>> ELSE Head(ss) \o Flatten(Tail(ss))

RECURSIVE JoinWith(_, _)
JoinWith(sep, texts) ==
    IF texts = <<>> THEN <<>>
    ELSE IF Len(texts) = 1 THEN Head(texts)
    ELSE Head(texts) \o sep \o JoinWith(sep, Tail(texts))

\* '\n'.join(texts)
JoinNL(texts) == IF texts = <<>> THEN EmptyStr ELSE JoinWith(<<>>, texts)

\* '\n\n'.join(texts)
JoinNLNL(texts) == IF texts = <<>> THEN EmptyStr ELSE JoinWith(EmptyStr, texts)

\* f'\n{text}'
NLBefore(text) == EmptyStr \o text

\* a one-line str
Ln(tokens) == <<tokens>>

SeqsUpTo(S, n) == UNION {[1..k -> S] : k \in 0..n}

Range(s) == {s[i] : i \in DOMAIN s}

(***************************************************************************)
(* Characters: str.isalnum, str.isdigit, str.lower                          *)
(***************************************************************************)
LowerLetters == {"a", "c", "e", "i", "n", "o", "s", "t", "w", "b", "z"}
UpperLetters == {"A", "W", "Z"}
\* U+0130 LATIN CAPITAL LETTER I WITH DOT ABOVE: category Lu, isalnum() is True,
\* and its full lower-case mapping is the two characters "i" U+0307.
CapitalIDot == "U+0130"
\* U+0307 COMBINING DOT ABOVE: category Mn, isalnum() is False.
CombiningDot == "U+0307"
Digits == {"0", "1", "2", "3"}
Underscore == "_"

IsDigit(c) == c \in Digits
IsAlnum(c) == c \in LowerLetters \cup UpperLetters \cup Digits \cup {CapitalIDot}

\* c.lower(), a str of one or two characters
Lower(c) ==
    CASE c = "A" -> <<"a">>
      [] c = "W" -> <<"w">>
      [] c = "Z" -> <<"z">>
      [] c = "Y" -> <<"y">>
      [] c = "E" -> <<"e">>
      [] c = "S" -> <<"s">>
      [] c = CapitalIDot -> <<"i", CombiningDot>>
      [] OTHER -> <<c>>

\* s.lower()
LowerStr(s) == Flatten([i \in DOMAIN s |-> Lower(s[i])])

(***************************************************************************)
(* _sanitize_resource_name                                                  *)
(***************************************************************************)
FallbackName == <<"i", "n", "s", "t", "a", "n", "c", "e">>

ReplaceInvalid(s) ==
    [i \in DOMAIN s |-> IF IsAlnum(s[i]) \/ s[i] = Underscore THEN s[i] ELSE Underscore]

EnsureLeading(s) ==
    IF s # <<>> /\ IsDigit(s[1]) THEN <<Underscore>> \o s ELSE s

\* the fallback forgotten: an empty label gives an empty symbol
LowerOnly(s) == LowerStr(s)

FallbackOrLower(s) == IF s # <<>> THEN LowerStr(s) ELSE FallbackName

_sanitize_resource_name(s) == FallbackOrLower(EnsureLeading(ReplaceInvalid(s)))

\* labels the sanitizer is tried on
SanitizeAlphabet == {"a", "A", "3", Underscore, "-", CapitalIDot}
ExampleName == <<"3", "-", "t", "e", "s", "t", " ", "z", "o", "n", "e", "!">>
ExampleSymbol == <<"_", "3", "_", "t", "e", "s", "t", "_", "z", "o", "n", "e", "_">>

(***************************************************************************)
(* _format_tags                                                             *)
(***************************************************************************)
\* value.replace('"', '\\"')
EscapeQuotes(v) ==
    Flatten([i \in DOMAIN v |-> IF v[i] = "\"" THEN <<"\\", "\"">> ELSE <<v[i]>>])

TagGet(tag, k) == IF k \in DOMAIN tag THEN tag[k] ELSE <<>>

TagLine(tag, indent) ==
    <<Spaces(indent + 2)>> \o TagGet(tag, "Key") \o <<" = \"">>
        \o EscapeQuotes(TagGet(tag, "Value")) \o <<"\"">>

_format_tags(tagList, indent) ==
    IF tagList = <<>>
    THEN Ln(<<Spaces(indent), "tags = {}">>)
    ELSE JoinNL(<<Ln(<<Spaces(indent), "tags = {">>)>>
                \o [i \in DOMAIN tagList |-> Ln(TagLine(tagList[i], indent))]
                \o <<Ln(<<Spaces(indent), "}">>)>>)

(***************************************************************************)
(* dict access: a dict is a function on its keys; d.get(k, default)         *)
(***************************************************************************)
Get(d, k, default) == IF k \in DOMAIN d THEN d[k] ELSE default

\* json.dumps of a list of str
RECURSIVE JsonItems(_)
JsonItems(ids) ==
    IF ids = <<>> THEN <<>>
    ELSE IF Len(ids) = 1 THEN <<"\"", ids[1], "\"">>
    ELSE <<"\"", ids[1], "\"", ", ">> \o JsonItems(Tail(ids))

JsonDumps(ids) == <<"[">> \o JsonItems(ids) \o <<"]">>

\* str(b).lower() of a bool
BoolLiteral(b) == IF b THEN "true" ELSE "false"

\* _get_tag_value: the value of the first tag with that key, or None
_get_tag_value(tagList, key) ==
    IF \E i \in DOMAIN tagList : TagGet(tagList[i], "Key") = key
    THEN LET i == CHOOSE i \in DOMAIN tagList :
                    /\ TagGet(tagList[i], "Key") = key
                    /\ \A j \in 1..(i - 1) : TagGet(tagList[j], "Key") # key
         IN  TagGet(tagList[i], "Value")
    ELSE <<>>

\* self._get_tag_value(tags, 'Name') or self.instance_id
InstanceName(inst, instance_id) ==
    LET v == _get_tag_value(Get(inst, "Tags", <<>>), <<"Name">>)
    IN  IF v # <<>> THEN v ELSE instance_id

ResourceName(inst, instance_id) == _sanitize_resource_name(InstanceName(inst, instance_id))

(***************************************************************************)
(* _generate_instance_resource: the conditional scalars (lines 310-382).    *)
(* Every operator returns the elements it appends to the list  lines.       *)
(***************************************************************************)
Placement(inst) == Get(inst, "Placement", <<>>)

HeadLines(inst, instance_id) ==
    << Ln(<<"resource \"aws_instance\" \"">> \o ResourceName(inst, instance_id) \o <<"\" {">>),
       Ln(<<"  ami           = \"", Get(inst, "ImageId", ""), "\"">>),
       Ln(<<"  instance_type = \"", Get(inst, "InstanceType", ""), "\"">>) >>

KeyNameLines(inst) ==
    IF Get(inst, "KeyName", "") # ""
    THEN <<Ln(<<"  key_name      = \"", inst.KeyName, "\"">>)>> ELSE <<>>

AvailabilityZoneLines(inst) ==
    IF Get(Placement(inst), "AvailabilityZone", "") # ""
    THEN <<Ln(<<"  availability_zone = \"", inst.Placement.AvailabilityZone, "\"">>)>>
    ELSE <<>>

SubnetLines(inst) ==
    IF Get(inst, "SubnetId", "") # ""
    THEN <<Ln(<<"  subnet_id     = \"", inst.SubnetId, "\"">>)>> ELSE <<>>

\* line 329: instance.get('NetworkInterfaces', [{}])[0] on an empty list
SecurityGroupIndexError(inst) ==
    /\ Get(inst, "SecurityGroups", <<>>) = <<>>
    /\ "NetworkInterfaces" \in DOMAIN inst
    /\ inst.NetworkInterfaces = <<>>

GroupIds(groups) == [i \in DOMAIN groups |-> groups[i].GroupId]

SecurityGroupIds(inst) ==
    IF Get(inst, "NetworkInterfaces", <<>>) # <<>>
    THEN GroupIds(Get(inst.NetworkInterfaces[1], "Groups", <<>>))
    ELSE IF Get(inst, "SecurityGroups", <<>>) # <<>>
    THEN GroupIds(inst.SecurityGroups)
    ELSE <<>>

SecurityGroupLines(inst) ==
    IF \/ Get(inst, "SecurityGroups", <<>>) # <<>>
       \/ Get(Get(inst, "NetworkInterfaces", << <<>> >>)[1], "Groups", <<>>) # <<>>
    THEN IF SecurityGroupIds(inst) # <<>>
         THEN <<Ln(<<"  vpc_security_group_ids = ">> \o JsonDumps(SecurityGroupIds(inst)))>>
         ELSE <<>>
    ELSE <<>>

PrivateIpLines(inst) ==
    IF Get(inst, "PrivateIpAddress", "") # ""
    THEN <<Ln(<<"  private_ip    = \"", inst.PrivateIpAddress, "\"">>)>> ELSE <<>>

\* An ARN is the sequence of its '/'-separated segments (arn.split('/')); '' is <<>>.
IamProfileName(inst) ==
    LET arn == Get(inst.IamInstanceProfile, "Arn", <<>>)
    IN  IF arn # <<>> THEN arn[Len(arn)] ELSE ""

IamProfileLines(inst) ==
    IF Get(inst, "IamInstanceProfile", <<>>) # <<>>
    THEN IF IamProfileName(inst) # ""
         THEN <<Ln(<<"  iam_instance_profile = \"", IamProfileName(inst), "\"">>)>>
         ELSE <<>>
    ELSE <<>>

SourceDestCheckMissingFalse == FALSE
SourceDestCheckDefault == TRUE

SourceDestCheckLines(inst) ==
    IF ~Get(Get(inst, "SourceDestCheckAttribute", <<>>), "Value", SourceDestCheckDefault)
    THEN <<Ln(<<"  source_dest_check = false">>)>> ELSE <<>>

MonitoringLines(inst) ==
    IF Get(Get(inst, "Monitoring", <<>>), "State", "") = "enabled"
    THEN <<Ln(<<"  monitoring = true">>)>> ELSE <<>>

EbsOptimizedLines(inst) ==
    IF Get(inst, "EbsOptimized", FALSE)
    THEN <<Ln(<<"  ebs_optimized = true">>)>> ELSE <<>>

DisableApiTerminationLines(inst) ==
    IF Get(Get(inst, "DisableApiTerminationAttribute", <<>>), "Value", FALSE)
    THEN <<Ln(<<"  disable_api_termination = true">>)>> ELSE <<>>

TenancyLines(inst) ==
    IF Get(Placement(inst), "Tenancy", "") # "" /\ inst.Placement.Tenancy # "default"
    THEN <<Ln(<<"  tenancy = \"", inst.Placement.Tenancy, "\"">>)>> ELSE <<>>

PlacementGroupLines(inst) ==
    IF Get(Placement(inst), "GroupName", "") # ""
    THEN <<Ln(<<"  placement_group = \"", inst.Placement.GroupName, "\"">>)>> ELSE <<>>

HostIdLines(inst) ==
    IF Get(Placement(inst), "HostId", "") # ""
    THEN <<Ln(<<"  host_id = \"", inst.Placement.HostId, "\"">>)>> ELSE <<>>

ScalarLines(inst) ==
    KeyNameLines(inst) \o AvailabilityZoneLines(inst) \o SubnetLines(inst)
      \o SecurityGroupLines(inst) \o PrivateIpLines(inst) \o IamProfileLines(inst)
      \o SourceDestCheckLines(inst) \o MonitoringLines(inst) \o EbsOptimizedLines(inst)
      \o DisableApiTerminationLines(inst) \o TenancyLines(inst)
      \o PlacementGroupLines(inst) \o HostIdLines(inst)

(***************************************************************************)
(* _generate_instance_resource: nested optional blocks (lines 384-424)      *)
(***************************************************************************)
CreditLines(inst) ==
    IF Get(inst, "CreditSpecification", <<>>) # <<>>
    THEN IF Get(inst.CreditSpecification, "CpuCredits", "") # ""
         THEN << NLBefore(Ln(<<"  credit_specification {">>)),
                 Ln(<<"    cpu_credits = \"", inst.CreditSpecification.CpuCredits, "\"">>),
                 Ln(<<"  }">>) >>
         ELSE <<>>
    ELSE <<>>

MetadataFieldLines(metadata) ==
    (IF Get(metadata, "HttpEndpoint", "") # ""
     THEN <<Ln(<<"    http_endpoint               = \"", metadata.HttpEndpoint, "\"">>)>>
     ELSE <<>>)
    \o (IF Get(metadata, "HttpTokens", "") # ""
        THEN <<Ln(<<"    http_tokens                 = \"", metadata.HttpTokens, "\"">>)>>
        ELSE <<>>)
    \o (IF Get(metadata, "HttpPutResponseHopLimit", 0) # 0
        THEN <<Ln(<<"    http_put_response_hop_limit = ",
                    ToString(metadata.HttpPutResponseHopLimit)>>)>>
        ELSE <<>>)
    \o (IF Get(metadata, "InstanceMetadataTags", "") # ""
        THEN <<Ln(<<"    instance_metadata_tags      = \"",
                    metadata.InstanceMetadataTags, "\"">>)>>
        ELSE <<>>)

MetadataLines(inst) ==
    IF Get(inst, "MetadataOptions", <<>>) # <<>>
    THEN <<NLBefore(Ln(<<"  metadata_options {">>))>>
            \o MetadataFieldLines(inst.MetadataOptions)
            \o <<Ln(<<"  }">>)>>
    ELSE <<>>

EnclaveLines(inst) ==
    IF Get(Get(inst, "EnclaveOptions", <<>>), "Enabled", FALSE)
    THEN << NLBefore(Ln(<<"  enclave_options {">>)),
            Ln(<<"    enabled = true">>),
            Ln(<<"  }">>) >>
    ELSE <<>>

CapacityReservationLines(inst) ==
    IF Get(inst, "CapacityReservationSpecification", <<>>) # <<>>
    THEN IF Get(inst.CapacityReservationSpecification, "CapacityReservationPreference", "") # ""
         THEN << NLBefore(Ln(<<"  capacity_reservation_specification {">>)),
                 Ln(<<"    capacity_reservation_preference = \"",
                      inst.CapacityReservationSpecification.CapacityReservationPreference,
                      "\"">>),
                 Ln(<<"  }">>) >>
         ELSE <<>>
    ELSE <<>>

HibernationLines(inst) ==
    IF Get(Get(inst, "HibernationOptions", <<>>), "Configured", FALSE)
    THEN <<NLBefore(Ln(<<"  hibernation = true">>))>>
    ELSE <<>>

NestedLines(inst) ==
    CreditLines(inst) \o MetadataLines(inst) \o EnclaveLines(inst)
      \o CapacityReservationLines(inst) \o HibernationLines(inst)

(***************************************************************************)
(* _generate_instance_resource: user data (lines 426-443).                  *)
(* The payload is the str the API returned: b64 is that text (a token),     *)
(* valid_b64 / valid_utf8 say whether base64.b64decode and bytes.decode     *)
(* succeed on it, and lines holds the decoded text as the lengths of its    *)
(* '\n'-separated lines (the characters themselves are never inspected).    *)
(***************************************************************************)
CommentLimit == 500

RECURSIVE SumSeq(_)
SumSeq(ns) == IF ns = <<>> THEN 0 ELSE Head(ns) + SumSeq(Tail(ns))

\* len(user_data_decoded): the characters of the lines and the newlines between
DecodedLen(payload) == SumSeq(payload.lines) + Len(payload.lines) - 1

\* the decoding never raises
DecodeNeverRaises(payload) == FALSE

\* base64.b64decode(...).decode('utf-8') raises
DecodeRaises(payload) == ~payload.valid_b64 \/ ~payload.valid_utf8

\* the text of a decoded line of n characters
LineOfLength(n) == IF n = 0 THEN "" ELSE "<" \o ToString(n) \o " characters>"

ShowDecodedAtLimit(payload) == DecodedLen(payload) <= CommentLimit

ShowDecoded(payload) == DecodedLen(payload) < CommentLimit

DecodedCommentLines(payload) ==
    IF DecodeRaises(payload) THEN <<>>
    ELSE IF ShowDecoded(payload)
    THEN <<Ln(<<"  # Decoded user data:">>)>>
         \o [i \in DOMAIN payload.lines |-> Ln(<<"  # ", LineOfLength(payload.lines[i])>>)]
    ELSE <<>>

NoPayload == [b64 |-> "", valid_b64 |-> TRUE, valid_utf8 |-> TRUE, lines |-> <<0>>]

UserDataValue(inst) == Get(Get(inst, "UserDataAttribute", <<>>), "Value", NoPayload)

UserDataLines(inst) ==
    IF UserDataValue(inst).b64 # ""
    THEN << NLBefore(Ln(<<"  # User data (base64 encoded)">>)),
            Ln(<<"  user_data_base64 = \"", UserDataValue(inst).b64, "\"">>) >>
         \o DecodedCommentLines(UserDataValue(inst))
    ELSE <<>>

(***************************************************************************)
(* _generate_instance_resource: storage blocks (lines 445-538)              *)
(***************************************************************************)
DefaultVolumeSize == 8
DefaultVolumeType == "gp2"
NoVolume == <<>>

BlockDevices(inst) == Get(inst, "BlockDeviceMappings", <<>>)
RootDeviceName(inst) == Get(inst, "RootDeviceName", "")

\* the first entry of volumes_data with that VolumeId, or None
FindVolume(volumes, volume_id) ==
    IF \E i \in DOMAIN volumes : volumes[i].VolumeId = volume_id
    THEN volumes[CHOOSE i \in DOMAIN volumes :
                    /\ volumes[i].VolumeId = volume_id
                    /\ \A j \in 1..(i - 1) : volumes[j].VolumeId # volume_id]
    ELSE NoVolume

VolumeDetailLines(vol) ==
    << Ln(<<"    volume_type           = \"", Get(vol, "VolumeType", DefaultVolumeType), "\"">>),
       Ln(<<"    volume_size           = ", ToString(Get(vol, "Size", DefaultVolumeSize))>>) >>
    \o (IF Get(vol, "Iops", 0) # 0
        THEN <<Ln(<<"    iops                  = ", ToString(vol.Iops)>>)>> ELSE <<>>)
    \o (IF Get(vol, "Throughput", 0) # 0
        THEN <<Ln(<<"    throughput            = ", ToString(vol.Throughput)>>)>> ELSE <<>>)
    \o (IF Get(vol, "Encrypted", FALSE)
        THEN <<Ln(<<"    encrypted             = true">>)>> ELSE <<>>)
    \o (IF Get(vol, "KmsKeyId", "") # ""
        THEN <<Ln(<<"    kms_key_id            = \"", vol.KmsKeyId, "\"">>)>> ELSE <<>>)

VolumeTagLines(vol) ==
    IF vol # NoVolume /\ Get(vol, "Tags", <<>>) # <<>>
    THEN <<NLBefore(_format_tags(vol.Tags, 4))>> ELSE <<>>

DeleteOnTerminationLine(ebs) ==
    Ln(<<"    delete_on_termination = ", BoolLiteral(Get(ebs, "DeleteOnTermination", TRUE))>>)

\* lines 448-452: the Ebs dict of the first mapping named like the root device
RootVolume(inst) ==
    LET bds == BlockDevices(inst)
        hit == {i \in DOMAIN bds : Get(bds[i], "DeviceName", None) = RootDeviceName(inst)}
    IN  IF hit = {} THEN <<>>
        ELSE Get(bds[CHOOSE i \in hit : \A j \in hit : i <= j], "Ebs", <<>>)

RootBlockLines(inst, volumes) ==
    IF RootDeviceName(inst) # "" /\ RootVolume(inst) # <<>>
    THEN LET vol == FindVolume(volumes, Get(RootVolume(inst), "VolumeId", None))
         IN  <<NLBefore(Ln(<<"  root_block_device {">>))>>
             \o (IF vol # NoVolume THEN VolumeDetailLines(vol) ELSE <<>>)
             \o <<DeleteOnTerminationLine(RootVolume(inst))>>
             \o VolumeTagLines(vol)
             \o <<Ln(<<"  }">>)>>
    ELSE <<>>

\* every mapping is taken, the root one too
IsAdditionalEbsNoRootTest(inst, bd) == Get(bd, "Ebs", <<>>) # <<>>

\* line 491
IsAdditionalEbs(inst, bd) ==
    Get(bd, "DeviceName", None) # RootDeviceName(inst) /\ Get(bd, "Ebs", <<>>) # <<>>

EbsDevices(inst) == SelectSeq(BlockDevices(inst), LAMBDA bd : IsAdditionalEbs(inst, bd))

EbsBlockLines(bd, volumes) ==
    LET vol == FindVolume(volumes, Get(bd.Ebs, "VolumeId", None))
    IN  << NLBefore(Ln(<<"  ebs_block_device {">>)),
           Ln(<<"    device_name           = \"", bd.DeviceName, "\"">>) >>
        \o (IF vol # NoVolume THEN VolumeDetailLines(vol) \o VolumeTagLines(vol) ELSE <<>>)
        \o <<DeleteOnTerminationLine(bd.Ebs)>>
        \o <<Ln(<<"  }">>)>>

EbsBlocksLines(inst, volumes) ==
    Flatten([i \in DOMAIN EbsDevices(inst) |-> EbsBlockLines(EbsDevices(inst)[i], volumes)])

EphemeralBlockLines(bd) ==
    << NLBefore(Ln(<<"  ephemeral_block_device {">>)),
       Ln(<<"    device_name  = \"", bd.DeviceName, "\"">>),
       Ln(<<"    virtual_name = \"", bd.VirtualName, "\"">>),
       Ln(<<"  }">>) >>

EphemeralBlocksLines(inst) ==
    LET eph == SelectSeq(BlockDevices(inst), LAMBDA bd : Get(bd, "VirtualName", "") # "")
    IN  Flatten([i \in DOMAIN eph |-> EphemeralBlockLines(eph[i])])

(***************************************************************************)
(* _generate_instance_resource: tags, placeholders, the whole block         *)
(***************************************************************************)
InstanceTagLines(inst) ==
    IF Get(inst, "Tags", <<>>) # <<>>
    THEN <<NLBefore(_format_tags(inst.Tags, 2))>> ELSE <<>>

TrailerLines ==
    << NLBefore(Ln(<<"  # Set volume_tags if you want different tags for volumes">>)),
       Ln(<<"  # volume_tags = {}">>),
       NLBefore(Ln(<<"  lifecycle {">>)),
       Ln(<<"    # Prevent accidental instance replacement">>),
       Ln(<<"    # ignore_changes = [ami, user_data]">>),
       Ln(<<"  }">>),
       Ln(<<"}">>) >>

\* the list  lines  at line 560
InstanceResourceLines(inst, volumes, instance_id) ==
    HeadLines(inst, instance_id) \o ScalarLines(inst) \o NestedLines(inst)
      \o UserDataLines(inst) \o RootBlockLines(inst, volumes)
      \o EbsBlocksLines(inst, volumes) \o EphemeralBlocksLines(inst)
      \o InstanceTagLines(inst) \o TrailerLines

\* the call raises instead of returning
InstanceResourceRaises(inst) == SecurityGroupIndexError(inst)

_generate_instance_resource(inst, volumes, instance_id) ==
    JoinNL(InstanceResourceLines(inst, volumes, instance_id))

(***************************************************************************)
(* _generate_header, _generate_ebs_volumes, _generate_volume_attachments,   *)
(* _generate_variables_recommendation                                       *)
(***************************************************************************)
\* now is datetime.utcnow().isoformat(), a token
_generate_header(inst, instance_id, region, now) ==
    << <<"# Terraform configuration generated from EC2 instance">>,
       <<"# Generated: ", now, "Z">>,
       <<"# Source Instance: ">> \o instance_id,
       <<"# Instance Name: ">> \o InstanceName(inst, instance_id),
       <<"# Region: ", region>>,
       <<"#">>,
       <<"# NOTE: This is a generated configuration. Review and customize as needed.">>,
       <<"# Some values may need to be parameterized or adjusted for your use case.">> >>

_generate_ebs_volumes == EmptyStr

_generate_volume_attachments == EmptyStr

_generate_variables_recommendation ==
    << <<"# Recommendations:">>,
       <<"# 1. Consider parameterizing values like AMI ID, instance type, etc. using variables">>,
       <<"# 2. Use data sources to look up existing resources (VPCs, subnets, security groups)">>,
       <<"# 3. Review all settings and adjust for your specific requirements">>,
       <<"# 4. Test this configuration in a non-production environment first">>,
       <<"# 5. Consider using remote state and proper state management">>,
       <<"#">>,
       <<"# Example variables you might want to create:">>,
       <<"# - var.instance_type">>,
       <<"# - var.ami_id">>,
       <<"# - var.key_name">>,
       <<"# - var.subnet_id">>,
       <<"# - var.security_group_ids">> >>

(***************************************************************************)
(* _generate_elastic_ip_resources (lines 573-602)                           *)
(***************************************************************************)
\* i is the 0-based position enumerate() gives
\* every address numbered, the first too
EipNameNumbered(resource_name, i) == resource_name \o <<"_eip_", ToString(i)>>

EipName(resource_name, i) ==
    IF i > 0 THEN resource_name \o <<"_eip_", ToString(i)>> ELSE resource_name \o <<"_eip">>

EipLines(inst, instance_id, eip, i) ==
    LET resource_name == ResourceName(inst, instance_id)
        eip_name == EipName(resource_name, i)
    IN  << Ln(<<"# Elastic IP for ">> \o InstanceName(inst, instance_id)),
           Ln(<<"resource \"aws_eip\" \"">> \o eip_name \o <<"\" {">>),
           Ln(<<"  domain = \"vpc\"">>) >>
        \o (IF Get(eip, "Tags", <<>>) # <<>>
            THEN <<NLBefore(_format_tags(eip.Tags, 2))>> ELSE <<>>)
        \o << Ln(<<"}">>),
              EmptyStr,
              Ln(<<"resource \"aws_eip_association\" \"">> \o eip_name \o <<"_assoc\" {">>),
              Ln(<<"  instance_id   = aws_instance.">> \o resource_name \o <<".id">>),
              Ln(<<"  allocation_id = aws_eip.">> \o eip_name \o <<".id">>),
              Ln(<<"}">>) >>

_generate_elastic_ip_resources(inst, instance_id, eips) ==
    IF eips = <<>> THEN EmptyStr
    ELSE JoinNL(Flatten([i \in DOMAIN eips |-> EipLines(inst, instance_id, eips[i], i - 1)]))

(***************************************************************************)
(* _generate_network_interfaces (lines 604-659)                             *)
(***************************************************************************)
MissingIndexSortKey == 999
MissingIndexValue == 0

SortKey(eni) == Get(Get(eni, "Attachment", <<>>), "DeviceIndex", MissingIndexSortKey)

DeviceIndex(eni) == Get(Get(eni, "Attachment", <<>>), "DeviceIndex", MissingIndexValue)

\* x put behind every element whose key is not greater: sorted() is stable
RECURSIVE InsertByKey(_, _)
InsertByKey(sorted, x) ==
    IF sorted = <<>> THEN <<x>>
    ELSE IF SortKey(x) < SortKey(Head(sorted)) THEN <<x>> \o sorted
    ELSE <<Head(sorted)>> \o InsertByKey(Tail(sorted), x)

RECURSIVE SortedFrom(_, _)
SortedFrom(done, rest) ==
    IF rest = <<>> THEN done ELSE SortedFrom(InsertByKey(done, Head(rest)), Tail(rest))

\* the list is walked as it is, without the sort of line 618
InputOrder(enis) == enis

\* sorted(self.network_interfaces_data, key=...)
SortedEnis(enis) == SortedFrom(<<>>, enis)

\* sorted_enis[1:]
SatelliteEnis(enis) == Tail(SortedEnis(enis))

EniName(resource_name, eni) == resource_name \o <<"_eni_", ToString(DeviceIndex(eni))>>

EniLines(inst, instance_id, eni) ==
    LET resource_name == ResourceName(inst, instance_id)
        eni_name == EniName(resource_name, eni)
        ips == Get(eni, "PrivateIpAddresses", <<>>)
    IN  << Ln(<<"# Additional Network Interface (device index ",
                ToString(DeviceIndex(eni)), ")">>),
           Ln(<<"resource \"aws_network_interface\" \"">> \o eni_name \o <<"\" {">>),
           Ln(<<"  subnet_id       = \"", Get(eni, "SubnetId", ""), "\"">>) >>
        \o (IF Get(eni, "Groups", <<>>) # <<>>
            THEN <<Ln(<<"  security_groups = ">> \o JsonDumps(GroupIds(eni.Groups)))>>
            ELSE <<>>)
        \o (IF ips # <<>>
            THEN <<Ln(<<"  private_ips     = ">>
                      \o JsonDumps([i \in DOMAIN ips |-> ips[i].PrivateIpAddress]))>>
            ELSE <<>>)
        \o (IF ~Get(eni, "SourceDestCheck", TRUE)
            THEN <<Ln(<<"  source_dest_check = false">>)>> ELSE <<>>)
        \o (IF Get(eni, "TagSet", <<>>) # <<>>
            THEN <<NLBefore(_format_tags(eni.TagSet, 2))>> ELSE <<>>)
        \o << Ln(<<"}">>),
              EmptyStr,
              Ln(<<"resource \"aws_network_interface_attachment\" \"">>
                   \o eni_name \o <<"_attach\" {">>),
              Ln(<<"  instance_id          = aws_instance.">> \o resource_name \o <<".id">>),
              Ln(<<"  network_interface_id = aws_network_interface.">> \o eni_name \o <<".id">>),
              Ln(<<"  device_index         = ", ToString(DeviceIndex(eni))>>),
              Ln(<<"}">>),
              EmptyStr >>

_generate_network_interfaces(inst, instance_id, enis) ==
    IF Len(enis) <= 1 THEN EmptyStr
    ELSE JoinNL(Flatten([i \in DOMAIN SatelliteEnis(enis) |->
                            EniLines(inst, instance_id, SatelliteEnis(enis)[i])]))

(***************************************************************************)
(* generate_terraform: the list tf_config (lines 245-274) and the document  *)
(***************************************************************************)
\* a section appended whether or not it is empty
AlwaysAppended(text) == TRUE

\* lines 255, 260, 265, 270: if <section>:
Truthy(text) == text # EmptyStr

TfConfig(inst, volumes, enis, eips, instance_id, region, now) ==
    << _generate_header(inst, instance_id, region, now),
       _generate_instance_resource(inst, volumes, instance_id) >>
    \o (IF Truthy(_generate_ebs_volumes) THEN <<_generate_ebs_volumes>> ELSE <<>>)
    \o (IF Truthy(_generate_volume_attachments) THEN <<_generate_volume_attachments>> ELSE <<>>)
    \o (IF Truthy(_generate_elastic_ip_resources(inst, instance_id, eips))
        THEN <<_generate_elastic_ip_resources(inst, instance_id, eips)>> ELSE <<>>)
    \o (IF Truthy(_generate_network_interfaces(inst, instance_id, enis))
        THEN <<_generate_network_interfaces(inst, instance_id, enis)>> ELSE <<>>)
    \o <<_generate_variables_recommendation>>

FullConfig(parts) == JoinNLNL(parts)

(***************************************************************************)
(* The converter object and its process                                     *)
(***************************************************************************)
NoData == <<>>
NoFile == << <<"NoFile">> >>
OldContent == << <<"# an earlier file">>, <<"resource \"aws_instance\" \"old\" {}">> >>
Region == "us-east-1"
InstanceId == <<"i", "-", "0", "a">>
Clocks == {"2024-01-01T00:00:00", "2024-01-01T00:00:01"}
OutputPath == "instance.tf"

\* __init__ (lines 40-49), before any call
Constructed ==
    /\ pc = "constructed"
    /\ exit_code = None
    /\ error = None
    /\ instance_data = NoData
    /\ volumes_data = <<>>
    /\ network_interfaces_data = <<>>
    /\ elastic_ips_data = <<>>
    /\ output_file = None
    /\ clock = None
    /\ tf_config = <<>>
    /\ full_config = NoText
    /\ dest_before = NoFile
    /\ opens = 0
    /\ runs = <<>>

\* no cleanup script is running
CleanupIdle ==
    /\ tool = None
    /\ args = <<>>
    /\ account = <<>>
    /\ cpc = "idle"
    /\ dry_run = TRUE
    /\ answer = None
    /\ cursor = 0
    /\ api_calls = <<>>
    /\ cleanup_exit = None
    /\ empty_zones = <<>>
    /\ non_empty_zones = <<>>
    /\ deleted_zones = <<>>
    /\ failed_deletes = <<>>
    /\ unassociated_eips = <<>>
    /\ associated_eips = <<>>
    /\ released_eips = <<>>
    /\ failed_releases = <<>>

(***************************************************************************)
(* What the EC2 API answers (the world describe_instance reads).            *)
(*   instance     Reservations[0].Instances[0] of describe_instances        *)
(*   attr_user, attr_src, attr_term                                         *)
(*                the 'UserData', 'SourceDestCheck', 'DisableApiTermination'*)
(*                members of the three describe_instance_attribute answers  *)
(*   attr_calls   how many of those three calls succeed before a ClientError*)
(*   volumes      VolumeId -> Volumes[0] of describe_volumes; an id outside *)
(*                the domain raises ClientError                             *)
(*   interfaces   NetworkInterfaceId -> NetworkInterfaces[0], likewise      *)
(*   addresses    Addresses of describe_addresses; addresses_ok = FALSE:    *)
(*                the call raises ClientError                               *)
(* Every mapping carries a non-empty DeviceName, as the API returns it.     *)
(***************************************************************************)
Merge(d, e) == [k \in DOMAIN d \cup DOMAIN e |-> IF k \in DOMAIN e THEN e[k] ELSE d[k]]

MinimalInstance == [ImageId |-> "ami-1", InstanceType |-> "t3.micro"]

DefaultWorld ==
    [ instance |-> MinimalInstance,
      attr_user |-> <<>>,
      attr_src |-> [Value |-> TRUE],
      attr_term |-> [Value |-> FALSE],
      attr_calls |-> 3,
      volumes |-> <<>>,
      interfaces |-> <<>>,
      addresses |-> <<>>,
      addresses_ok |-> TRUE ]

\* a world with some members replaced; a replaced instance is merged key by key
Patch(w, p) ==
    [k \in DOMAIN w |->
        IF k \in DOMAIN p
        THEN IF k = "instance" THEN Merge(w.instance, p.instance) ELSE p[k]
        ELSE w[k]]

Tag(k, v) == [Key |-> <<k>>, Value |-> v]
WebName == <<"W", "e", "b", "-", "1">>

FirstEni ==
    [NetworkInterfaceId |-> "eni-a", SubnetId |-> "subnet-1",
     Groups |-> <<[GroupId |-> "sg-2", GroupName |-> "db"]>>,
     Attachment |-> [DeviceIndex |-> 0]]

\* The optional members of the instance, one set of alternatives per aspect.
Aspects ==
    [ KeyName |-> {[instance |-> [KeyName |-> v]] : v \in {"key-1", ""}},
      Placement |-> {[instance |-> [Placement |-> v]] : v \in
            { [AvailabilityZone |-> "us-east-1a", Tenancy |-> "default"],
              [Tenancy |-> "dedicated"],
              [GroupName |-> "pg-1"],
              [HostId |-> "h-1", Tenancy |-> "host"],
              [AvailabilityZone |-> "", Tenancy |-> "", GroupName |-> "", HostId |-> ""] }},
      SubnetId |-> {[instance |-> [SubnetId |-> "subnet-1"]]},
      SecurityGroups |-> {[instance |-> [SecurityGroups |-> v]] : v \in
            { <<[GroupId |-> "sg-1", GroupName |-> "web"]>>,
              <<[GroupId |-> "sg-1", GroupName |-> "web"],
                [GroupId |-> "sg-3", GroupName |-> "ssh"]>> }},
      NetworkInterfaces |->
            { [instance |-> [NetworkInterfaces |-> <<FirstEni>>],
               interfaces |-> [e \in {"eni-a"} |-> FirstEni]],
              [instance |-> [NetworkInterfaces |-> <<FirstEni>>]],
              [instance |-> [NetworkInterfaces |->
                    <<[NetworkInterfaceId |-> "eni-a", Attachment |-> [DeviceIndex |-> 0]]>>]],
              [instance |-> [NetworkInterfaces |-> <<>>]] },
      PrivateIpAddress |-> {[instance |-> [PrivateIpAddress |-> "10.0.0.5"]]},
      IamInstanceProfile |-> {[instance |-> [IamInstanceProfile |-> v]] : v \in
            { [Arn |-> <<"arn:aws:iam::1:instance-profile", "web-role">>, Id |-> "AIPA1"],
              [Arn |-> <<"arn:aws:iam::1:instance-profile", "">>, Id |-> "AIPA1"],
              [Arn |-> <<>>, Id |-> "AIPA1"],
              [Id |-> "AIPA1"] }},
      SourceDestCheck |-> {[attr_src |-> v] : v \in {[Value |-> FALSE], <<>>}},
      Monitoring |-> {[instance |-> [Monitoring |-> [State |-> v]]] : v \in
            {"enabled", "disabled"}},
      EbsOptimized |-> {[instance |-> [EbsOptimized |-> v]] : v \in BOOLEAN},
      DisableApiTermination |-> {[attr_term |-> v] : v \in {[Value |-> TRUE], <<>>}},
      AttributeCalls |-> {[attr_calls |-> n, attr_src |-> [Value |-> FALSE],
                           attr_term |-> [Value |-> TRUE]] : n \in 0..2},
      CreditSpecification |-> {[instance |-> [CreditSpecification |-> [CpuCredits |-> v]]] :
            v \in {"unlimited", ""}},
      MetadataOptions |-> {[instance |-> [MetadataOptions |-> v]] : v \in
            { [HttpEndpoint |-> "enabled", HttpTokens |-> "required",
               HttpPutResponseHopLimit |-> 2, InstanceMetadataTags |-> "disabled"],
              [HttpTokens |-> "optional", HttpPutResponseHopLimit |-> 0],
              [State |-> "applied"] }},
      EnclaveOptions |-> {[instance |-> [EnclaveOptions |-> [Enabled |-> v]]] : v \in BOOLEAN},
      CapacityReservation |-> {[instance |-> [CapacityReservationSpecification |-> v]] : v \in
            { [CapacityReservationPreference |-> "open"],
              [CapacityReservationTarget |-> "cr-1"] }},
      HibernationOptions |-> {[instance |-> [HibernationOptions |-> [Configured |-> v]]] :
            v \in BOOLEAN},
      Tags |-> {[instance |-> [Tags |-> v]] : v \in
            { <<Tag("Name", WebName)>>,
              <<Tag("Owner", <<"o", "\"", "p", "s">>), Tag("Name", ExampleName),
                Tag("Env", <<"a">>)>>,
              <<Tag("Env", <<"a">>)>> }} ]

\* the partial choices of at most k alternatives, one per aspect at most
RECURSIVE Vary(_, _)
Vary(k, names) ==
    IF k = 0 \/ names = {} THEN {<<>>}
    ELSE LET a == CHOOSE a \in names : TRUE
         IN  Vary(k, names \ {a})
             \cup {[n \in {a} \cup DOMAIN f |-> IF n = a THEN alt ELSE f[n]] :
                      alt \in Aspects[a], f \in Vary(k - 1, names \ {a})}

RECURSIVE PatchAll(_, _, _)
PatchAll(w, f, names) ==
    IF names = {} THEN w
    ELSE LET a == CHOOSE a \in names : TRUE
         IN  PatchAll(Patch(w, f[a]), f, names \ {a})

MaxVaried == 2

PrimaryWorlds == {PatchAll(DefaultWorld, f, DOMAIN f) : f \in Vary(MaxVaried, DOMAIN Aspects)}

(***************************************************************************)
(* User-data answers                                                        *)
(***************************************************************************)
Text(id, ls) == [b64 |-> id, valid_b64 |-> TRUE, valid_utf8 |-> TRUE, lines |-> ls]

Payloads ==
    { Text("b64-400", <<400>>), Text("b64-499", <<499>>), Text("b64-500", <<500>>),
      Text("b64-600", <<600>>), Text("b64-1", <<1>>),
      Text("b64-249-249", <<249, 249>>), Text("b64-249-250", <<249, 250>>),
      Text("b64-3-lines", <<10, 0, 20>>), Text("b64-trailing-newline", <<498, 0>>),
      [b64 |-> "not base64!", valid_b64 |-> FALSE, valid_utf8 |-> FALSE, lines |-> <<0>>],
      [b64 |-> "b64-binary", valid_b64 |-> TRUE, valid_utf8 |-> FALSE, lines |-> <<0>>],
      NoPayload }

UserDataWorlds ==
    {Patch(DefaultWorld, [attr_user |-> [Value |-> p]]) : p \in Payloads}
    \cup {Patch(DefaultWorld, [attr_user |-> [Value |-> Text("b64-400", <<400>>)],
                               attr_calls |-> 0])}

(***************************************************************************)
(* Block-device mappings and the volumes behind them                        *)
(***************************************************************************)
RootName == "/dev/sda1"
Devices == {RootName, "/dev/sdb", "/dev/sdc"}
VolumeOf == [d \in Devices |->
                CASE d = RootName -> "vol-a" [] d = "/dev/sdb" -> "vol-b" [] OTHER -> "vol-c"]

AllVolumes ==
    [id \in {"vol-a", "vol-b", "vol-c"} |->
        CASE id = "vol-a" ->
               [VolumeId |-> id, VolumeType |-> "gp3", Size |-> 30, Iops |-> 3000,
                Throughput |-> 125, Encrypted |-> TRUE, KmsKeyId |-> "arn:aws:kms:key-1",
                Tags |-> <<Tag("Name", <<"r", "o", "o", "t">>)>>]
          [] id = "vol-b" -> [VolumeId |-> id]
          [] OTHER ->
               [VolumeId |-> id, VolumeType |-> "io1", Size |-> 100, Iops |-> 0,
                Encrypted |-> FALSE, KmsKeyId |-> "", Tags |-> <<Tag("Env", <<"a">>)>>]]

MappingKinds(d) ==
    { [DeviceName |-> d, Ebs |-> [VolumeId |-> VolumeOf[d], DeleteOnTermination |-> TRUE]],
      [DeviceName |-> d, Ebs |-> [VolumeId |-> VolumeOf[d], DeleteOnTermination |-> FALSE,
                                  Status |-> "attached"]],
      [DeviceName |-> d, Ebs |-> [VolumeId |-> VolumeOf[d]]],
      [DeviceName |-> d, VirtualName |-> "ephemeral0"],
      [DeviceName |-> d, Ebs |-> <<>>],
      [DeviceName |-> d, VirtualName |-> "ephemeral1",
       Ebs |-> [VolumeId |-> VolumeOf[d], DeleteOnTermination |-> TRUE]] }

\* every list of mappings with pairwise different device names
RECURSIVE MappingLists(_)
MappingLists(devs) ==
    {<<>>} \cup UNION {{<<m>> \o rest : m \in MappingKinds(d), rest \in MappingLists(devs \ {d})} :
                        d \in devs}

StorageWorlds ==
    {Patch(DefaultWorld, [instance |-> root @@ [BlockDeviceMappings |-> bds], volumes |-> vols]) :
        root \in {[RootDeviceName |-> RootName], <<>>},
        bds \in MappingLists(Devices),
        vols \in {AllVolumes, <<>>}}

\* user data of every kind on an instance with storage blocks and tags
UserDataStorageWorlds ==
    {Patch(DefaultWorld,
           [instance |-> [RootDeviceName |-> RootName,
                          BlockDeviceMappings |->
                              << [DeviceName |-> RootName, Ebs |-> [VolumeId |-> "vol-a"]],
                                 [DeviceName |-> "/dev/sdb", Ebs |-> [VolumeId |-> "vol-c"]],
                                 [DeviceName |-> "/dev/sdc", VirtualName |-> "ephemeral0"] >>,
                          Tags |-> <<Tag("Name", WebName)>>],
            volumes |-> AllVolumes,
            attr_user |-> [Value |-> p]]) : p \in Payloads}

(***************************************************************************)
(* Network interfaces                                                       *)
(***************************************************************************)
MaxEnis == 3
NoIndex == -1
EniId(i) == "eni-" \o ToString(i)

\* the i-th interface of the instance, attached at idx (NoIndex: no Attachment member)
Eni(i, idx) ==
    [NetworkInterfaceId |-> EniId(i),
     SubnetId |-> "subnet-" \o ToString(i),
     Groups |-> IF i = 3 THEN <<>> ELSE <<[GroupId |-> "sg-" \o ToString(i), GroupName |-> "g"]>>,
     PrivateIpAddresses |-> IF i = 2 THEN <<>>
                            ELSE <<[PrivateIpAddress |-> "10.0.0." \o ToString(i)]>>,
     SourceDestCheck |-> (i # 2),
     TagSet |-> IF i = 2 THEN <<Tag("Name", <<"n", "a", "t">>)>> ELSE <<>>]
    @@ (IF idx = NoIndex THEN <<>> ELSE [Attachment |-> [DeviceIndex |-> idx]])

EniLists ==
    UNION {{[i \in 1..n |-> Eni(i, idxs[i])] : idxs \in [1..n -> (0..(MaxEnis - 1)) \cup {NoIndex}]} :
            n \in 0..MaxEnis}

\* all interfaces retrieved, or all but one
EniTables(enis) ==
    {[id \in {enis[i].NetworkInterfaceId : i \in DOMAIN enis \ lost} |->
         enis[CHOOSE i \in DOMAIN enis : enis[i].NetworkInterfaceId = id]] :
       lost \in {{}} \cup {{i} : i \in DOMAIN enis}}

InterfaceWorlds ==
    UNION {{Patch(DefaultWorld, [instance |-> [NetworkInterfaces |-> enis], interfaces |-> t]) :
               t \in EniTables(enis)} : enis \in EniLists}

(***************************************************************************)
(* Elastic IPs                                                              *)
(***************************************************************************)
MaxEips == 2

Eip(i, tagged) ==
    [AllocationId |-> "eipalloc-" \o ToString(i), PublicIp |-> "203.0.113." \o ToString(i)]
    @@ (IF tagged THEN [Tags |-> <<Tag("Name", <<"e", "i", "p">>)>>] ELSE <<>>)

EipLists ==
    UNION {{[i \in 1..n |-> Eip(i, tagged[i])] : tagged \in [1..n -> BOOLEAN]} : n \in 0..MaxEips}

AddressWorlds ==
    {Patch(DefaultWorld, [instance |-> named, addresses |-> eips, addresses_ok |-> ok]) :
        named \in {<<>>, [Tags |-> <<Tag("Name", WebName)>>]},
        eips \in EipLists,
        ok \in BOOLEAN}

(***************************************************************************)
(* describe_instance (lines 57-114) and the four _get_* helpers             *)
(***************************************************************************)
AttributeKeys ==
    <<"UserDataAttribute", "SourceDestCheckAttribute", "DisableApiTerminationAttribute">>

\* _get_instance_attributes: the keys set before the first failing call
WithAttributes(w) ==
    LET answers == <<w.attr_user, w.attr_src, w.attr_term>>
    IN  Merge(w.instance,
              [k \in {AttributeKeys[i] : i \in 1..w.attr_calls} |->
                  answers[CHOOSE i \in 1..3 : AttributeKeys[i] = k]])

\* _get_volume_details / _get_network_interface_details: one lookup per entry that
\* names an id, appended when the call succeeds and returns something
RECURSIVE Retrieved(_, _)
Retrieved(ids, table) ==
    IF ids = <<>> THEN <<>>
    ELSE (IF Head(ids) # None /\ Head(ids) \in DOMAIN table /\ table[Head(ids)] # <<>>
          THEN <<table[Head(ids)]>> ELSE <<>>)
         \o Retrieved(Tail(ids), table)

VolumeIds(inst) ==
    [i \in DOMAIN BlockDevices(inst) |->
        Get(Get(BlockDevices(inst)[i], "Ebs", <<>>), "VolumeId", None)]

InterfaceIds(inst) ==
    [i \in DOMAIN Get(inst, "NetworkInterfaces", <<>>) |->
        Get(inst.NetworkInterfaces[i], "NetworkInterfaceId", None)]

DescribeInstance(worlds) ==
    /\ pc = "constructed"
    /\ \E w \in worlds :
         /\ instance_data' = WithAttributes(w)
         /\ volumes_data' = Retrieved(VolumeIds(w.instance), w.volumes)
         /\ network_interfaces_data' = Retrieved(InterfaceIds(w.instance), w.interfaces)
         /\ elastic_ips_data' = IF w.addresses_ok THEN w.addresses ELSE elastic_ips_data
    /\ pc' = "described"
    /\ UNCHANGED <<exit_code, error, output_file, clock, tf_config, full_config,
                   dest, dest_before, opens, runs, harness_vars,
                   cleanup_vars>>

\* lines 72-74, 100-114: instance not found, ClientError, NoCredentialsError
DescribeFails ==
    /\ pc = "constructed"
    /\ pc' = "exited"
    /\ exit_code' = 1
    /\ error' = "describe"
    /\ UNCHANGED <<object_vars, output_file, clock, tf_config, full_config,
                   dest, dest_before, opens, runs, harness_vars,
                   cleanup_vars>>

(***************************************************************************)
(* generate_terraform (lines 229-288)                                       *)
(***************************************************************************)
MaxRuns == 2

\* the list of an earlier call kept: tf_config never reset
StaleTfConfig == tf_config

\* line 245: tf_config = []
FreshTfConfig == <<>>

\* the list sorted in place, as list.sort() would
SortedInPlace(enis) == SortedEnis(enis)

\* lines 618-621: sorted() builds a new list, the list it is given stays as it is
AfterSorted(enis) == enis

\* the guard of lines 239-241 never taken
NeverNoData(d) == FALSE

\* line 239: not self.instance_data
NoInstanceData(d) == d = NoData

CanGenerate == pc \in {"constructed", "described", "returned"} /\ Len(runs) < MaxRuns

\* lines 239-241
GenerateWithoutData ==
    /\ CanGenerate
    /\ NoInstanceData(instance_data)
    /\ pc' = "exited"
    /\ exit_code' = 1
    /\ error' = "no_data"
    /\ UNCHANGED <<object_vars, output_file, clock, tf_config, full_config,
                   dest, dest_before, opens, runs, harness_vars,
                   cleanup_vars>>

\* an exception of _generate_instance_resource leaves generate_terraform uncaught
GenerateRaises ==
    /\ CanGenerate
    /\ ~NoInstanceData(instance_data)
    /\ InstanceResourceRaises(instance_data)
    /\ pc' = "raised"
    /\ exit_code' = 1
    /\ error' = "IndexError"
    /\ UNCHANGED <<object_vars, output_file, clock, tf_config, full_config,
                   dest, dest_before, opens, runs, harness_vars,
                   cleanup_vars>>

\* lines 243-276, and line 288 when no output file is given
GenerateTerraform(clocks, outputs) ==
    /\ CanGenerate
    /\ ~NoInstanceData(instance_data)
    /\ ~InstanceResourceRaises(instance_data)
    /\ \E t \in clocks, out \in outputs :
         /\ clock' = t
         /\ output_file' = out
         /\ tf_config' = FreshTfConfig
                \o TfConfig(instance_data, volumes_data, network_interfaces_data,
                            elastic_ips_data, InstanceId, Region, t)
         /\ full_config' = FullConfig(tf_config')
         /\ pc' = IF out = None THEN "returned" ELSE "open"
         /\ runs' = IF out = None THEN Append(runs, [now |-> t, doc |-> full_config'])
                    ELSE runs
    /\ dest_before' = dest
    /\ opens' = 0
    /\ network_interfaces_data' = AfterSorted(network_interfaces_data)
    /\ UNCHANGED <<instance_data, volumes_data, elastic_ips_data, exit_code, error, dest,
                   harness_vars, cleanup_vars>>

(***************************************************************************)
(* The emitters on every description of the families: describe, then        *)
(* generate to a str (no output file).                                      *)
(***************************************************************************)
FrozenClock == "2024-01-01T00:00:00"

\* descriptions with floating addresses and satellite interfaces together
SatelliteWorlds ==
    {Patch(DefaultWorld, [instance |-> [NetworkInterfaces |-> enis],
                          interfaces |-> [id \in {EniId(1), EniId(2)} |->
                                            enis[CHOOSE i \in 1..2 :
                                                    enis[i].NetworkInterfaceId = id]],
                          addresses |-> eips]) :
        enis \in {<<Eni(1, 0), Eni(2, 1)>>, <<Eni(1, 1), Eni(2, 0)>>},
        eips \in EipLists \ {<<>>}}

EmitWorlds ==
    PrimaryWorlds \cup UserDataWorlds \cup StorageWorlds \cup InterfaceWorlds \cup AddressWorlds
        \cup SatelliteWorlds \cup UserDataStorageWorlds

InitEmit ==
    /\ Constructed
    /\ CleanupIdle
    /\ dest = NoFile
    /\ name = <<>>
    /\ sanitized = <<>>
    /\ tags = <<>>
    /\ tag_text = NoText

DescribeEmit == DescribeInstance(EmitWorlds)
GenerateEmit == GenerateTerraform({FrozenClock}, {None})

NextEmit == DescribeEmit \/ GenerateEmit \/ GenerateRaises \/ GenerateWithoutData

SpecEmit == InitEmit /\ [][NextEmit]_vars

(***************************************************************************)
(* The sink (lines 278-288): with open(output_file, 'w') as f: f.write(...) *)
(* open(..., 'w') creates or truncates the file; the text layer buffers, so *)
(* after write() any leading part of the document may be in the file; the   *)
(* close at the end of the with block flushes the rest.  Every step may     *)
(* raise OSError (IOError), which line 284 turns into sys.exit(1).  What is *)
(* in the file after a failed write or close is a choice over the leading   *)
(* parts of the document, here cut between lines.                           *)
(***************************************************************************)
\* the leading parts of a text that are shorter than the text
ProperPrefixes(text) == {EmptyStr} \cup {SubSeq(text, 1, k) : k \in 1..(Len(text) - 1)}

\* line 281: open(output_file, 'w', encoding='utf-8') creates or truncates
OpenOk ==
    /\ pc = "open"
    /\ pc' = "opened"
    /\ opens' = opens + 1
    /\ dest' = EmptyStr
    /\ UNCHANGED <<object_vars, exit_code, error, output_file, clock, tf_config,
                   full_config, dest_before, runs, harness_vars, cleanup_vars>>

OpenFails ==
    /\ pc = "open"
    /\ pc' = "exited"
    /\ exit_code' = 1
    /\ error' = "open"
    /\ opens' = opens + 1
    /\ UNCHANGED <<object_vars, output_file, clock, tf_config, full_config,
                   dest, dest_before, runs, harness_vars, cleanup_vars>>

WriteOk ==
    /\ pc = "opened"
    /\ pc' = "written"
    /\ dest' \in ProperPrefixes(full_config) \cup {full_config}
    /\ UNCHANGED <<object_vars, exit_code, error, output_file, clock, tf_config,
                   full_config, dest_before, opens, runs, harness_vars, cleanup_vars>>

WriteFails ==
    /\ pc = "opened"
    /\ pc' = "exited"
    /\ exit_code' = 1
    /\ error' = "write"
    /\ dest' \in ProperPrefixes(full_config)
    /\ UNCHANGED <<object_vars, output_file, clock, tf_config, full_config,
                   dest_before, opens, runs, harness_vars, cleanup_vars>>

\* the with block left normally, then line 288
CloseOk ==
    /\ pc = "written"
    /\ pc' = "returned"
    /\ dest' = full_config
    /\ runs' = Append(runs, [now |-> clock, doc |-> full_config])
    /\ UNCHANGED <<object_vars, exit_code, error, output_file, clock, tf_config,
                   full_config, dest_before, opens, harness_vars, cleanup_vars>>

\* the flush of close() raises: the file keeps what had reached it
CloseFails ==
    /\ pc = "written"
    /\ pc' = "exited"
    /\ exit_code' = 1
    /\ error' = "close"
    /\ UNCHANGED <<object_vars, output_file, clock, tf_config, full_config,
                   dest, dest_before, opens, runs, harness_vars,
                   cleanup_vars>>

(***************************************************************************)
(* The life cycle of one converter object: describe, then generate, to a    *)
(* str or to the output path, which may hold an earlier file.               *)
(***************************************************************************)
LifecycleWorlds ==
    { DefaultWorld,
      Patch(DefaultWorld, [instance |-> [Tags |-> <<Tag("Name", WebName)>>,
                                         KeyName |-> "key-1"]]),
      Patch(DefaultWorld, [instance |-> [NetworkInterfaces |-> <<>>]]),
      Patch(DefaultWorld, [instance |-> [NetworkInterfaces |-> <<Eni(1, 1), Eni(2, 0)>>],
                           interfaces |-> [id \in {EniId(1), EniId(2)} |->
                                             IF id = EniId(1) THEN Eni(1, 1) ELSE Eni(2, 0)]]) }

Init ==
    /\ Constructed
    /\ CleanupIdle
    /\ dest \in {NoFile, OldContent}
    /\ name = <<>>
    /\ sanitized = <<>>
    /\ tags = <<>>
    /\ tag_text = NoText

Describe == DescribeInstance(LifecycleWorlds)
Generate == GenerateTerraform(Clocks, {None, OutputPath})

Next ==
    \/ Describe
    \/ DescribeFails
    \/ Generate
    \/ GenerateRaises
    \/ GenerateWithoutData
    \/ OpenOk
    \/ OpenFails
    \/ WriteOk
    \/ WriteFails
    \/ CloseOk
    \/ CloseFails

Spec == Init /\ [][Next]_vars

(***************************************************************************)
(* Harness for the two pure utilities: the inputs are drawn by Init, the    *)
(* action applies the function.                                             *)
(***************************************************************************)

TagKeys == <<"Env", "Name", "Owner">>
TagValues == {<<"w", "e", "b">>, <<"a", "\"", "b">>}
AllTags == {[Key |-> <<TagKeys[k]>>, Value |-> v] : k \in DOMAIN TagKeys, v \in TagValues}
UniqueKeys(tagList) ==
    \A i, j \in DOMAIN tagList : i # j => tagList[i].Key # tagList[j].Key
TagLists == {t \in SeqsUpTo(AllTags, MaxTags) : UniqueKeys(t)}

InitSanitize ==
    /\ name \in SeqsUpTo(SanitizeAlphabet, MaxNameLen) \cup {ExampleName}
    /\ sanitized = <<>>
    /\ tags = <<>>
    /\ tag_text = NoText
    /\ Constructed
    /\ dest = NoFile
    /\ CleanupIdle

\* one call of _sanitize_resource_name, on the label or on the previous result
SanitizeName ==
    /\ Len(sanitized) < MaxPasses
    /\ sanitized' = Append(sanitized,
            _sanitize_resource_name(IF sanitized = <<>> THEN name
                                    ELSE sanitized[Len(sanitized)]))
    /\ UNCHANGED <<name, tags, tag_text, object_vars, process_vars, cleanup_vars>>

SpecSanitize == InitSanitize /\ [][SanitizeName]_vars

InitTags ==
    /\ tags \in TagLists
    /\ tag_text = NoText
    /\ name = <<>>
    /\ sanitized = <<>>
    /\ Constructed
    /\ dest = NoFile
    /\ CleanupIdle

FormatTags ==
    /\ tag_text = NoText
    /\ tag_text' = _format_tags(tags, 2)
    /\ UNCHANGED <<name, sanitized, tags, object_vars, process_vars, cleanup_vars>>

SpecTags == InitTags /\ [][FormatTags]_vars

(***************************************************************************)
(* The cleanup scripts: what is common to both                              *)
(***************************************************************************)
MaxZones == 2
MaxAddresses == 2

\* the parsed flags --delete, --dry-run, --force
ArgSets == [delete : BOOLEAN, dry_run : BOOLEAN, force : BOOLEAN]

\* main: dry_run = not args.delete or args.dry_run
DryRunMode(a) == ~a.delete \/ a.dry_run

\* the `if self.dry_run:' test that opens delete_hosted_zone and release_elastic_ip
GuardRemoved(d) == FALSE
DryRunGuard(d) == d

\* what the operator may type at the prompt
Space == " "
Responses ==
    { <<"y">>, <<"Y">>, <<"y", "e", "s">>, <<Space, "Y", "E", "S", Space>>,
      <<"n", "o">>, <<>>, <<"y", "e">>, <<"y", Space, "e", "s">> }

\* str.strip()
RECURSIVE LStrip(_)
LStrip(s) == IF s # <<>> /\ Head(s) = Space THEN LStrip(Tail(s)) ELSE s
RECURSIVE RStrip(_)
RStrip(s) ==
    IF s # <<>> /\ s[Len(s)] = Space THEN RStrip(SubSeq(s, 1, Len(s) - 1)) ELSE s
Strip(s) == RStrip(LStrip(s))

\* every answer is taken for a confirmation
AnyAnswer(response) == TRUE

\* response not in ['yes', 'y'] decides the cancellation
Confirmed(response) == LowerStr(Strip(response)) \in { <<"y", "e", "s">>, <<"y">> }

\* the outcomes of a deleting API call: it returns, or raises one of the two
\* exception classes the scripts catch
CallOutcomes == {"ok", "ClientError", "BotoCoreError"}

(***************************************************************************)
(* cleanup-empty-route53-zones.py                                           *)
(***************************************************************************)
\* A hosted zone: its id, the pages of its record listing (each record by its
\* Type), and the page at which the listing raises (0: it does not).
RecordPages ==
    { << <<"NS", "SOA">> >>, << <<"NS", "SOA", "A">> >>, << <<"NS", "SOA">>, <<"A">> >>,
      << <<"NS", "SOA">>, <<"NS">> >> }
ZoneKinds == {k \in [pages : RecordPages, fails_at : 0..2] : k.fails_at <= Len(k.pages)}
Zone(i, k) == [Id |-> i, pages |-> k.pages, fails_at |-> k.fails_at]
ZoneLists ==
    UNION {{[i \in 1..n |-> Zone(i, ks[i])] : ks \in [1..n -> ZoneKinds]} : n \in 0..MaxZones}
Route53Accounts ==
    {[listing |-> "ok", zones |-> zs] : zs \in ZoneLists}
    \cup {[listing |-> "fails", zones |-> <<>>]}

\* get_record_sets: the pages collected, or [] when the paginator raises
get_record_sets(zone) == IF zone.fails_at > 0 THEN <<>> ELSE Flatten(zone.pages)

\* is_zone_empty
is_zone_empty(record_sets) == \A i \in DOMAIN record_sets : record_sets[i] \in {"NS", "SOA"}

\* scan_zones: the zone_info of a listed zone
zone_info(zone) ==
    [zone_id |-> zone.Id, total_records |-> Len(get_record_sets(zone))]

\* scan_zones: the zone_info of the listed zones that are (empty = TRUE) or are
\* not (empty = FALSE) classified as empty, in the order listed
RECURSIVE SelectZones(_, _)
SelectZones(zones, empty) ==
    IF zones = <<>> THEN <<>>
    ELSE (IF is_zone_empty(get_record_sets(Head(zones))) = empty
            THEN <<zone_info(Head(zones))>> ELSE <<>>)
         \o SelectZones(Tail(zones), empty)

Route53Start == tool = "route53" /\ cpc = "start"

\* main up to the scan: the object is constructed and scan_zones sorts every
\* listed zone into one of the two lists
Route53Scan ==
    /\ Route53Start
    /\ account.listing = "ok"
    /\ dry_run' = DryRunMode(args)
    /\ empty_zones' = SelectZones(account.zones, TRUE)
    /\ non_empty_zones' = SelectZones(account.zones, FALSE)
    /\ cpc' = "scanned"
    /\ UNCHANGED <<tool, args, account, answer, cursor, api_calls, cleanup_exit,
                   deleted_zones, failed_deletes, eip_vars, object_vars, process_vars,
                   harness_vars>>

\* list_hosted_zones raises: sys.exit(1)
Route53ListFails ==
    /\ Route53Start
    /\ account.listing = "fails"
    /\ dry_run' = DryRunMode(args)
    /\ cpc' = "exited"
    /\ cleanup_exit' = 1
    /\ UNCHANGED <<tool, args, account, answer, cursor, api_calls, zone_vars, eip_vars,
                   object_vars, process_vars, harness_vars>>

\* main: `if args.delete and cleanup.empty_zones' is false
Route53NoCleanup ==
    /\ tool = "route53" /\ cpc = "scanned"
    /\ ~(args.delete /\ empty_zones # <<>>)
    /\ cpc' = "cleaned"
    /\ UNCHANGED <<tool, args, account, dry_run, answer, cursor, api_calls, cleanup_exit,
                   zone_vars, eip_vars, object_vars, process_vars, harness_vars>>

\* cleanup_empty_zones asks: not self.dry_run and not skip_confirmation
Route53Prompt ==
    /\ tool = "route53" /\ cpc = "scanned"
    /\ args.delete /\ empty_zones # <<>>
    /\ ~dry_run /\ ~args.force
    /\ cpc' = "prompt"
    /\ UNCHANGED <<tool, args, account, dry_run, answer, cursor, api_calls, cleanup_exit,
                   zone_vars, eip_vars, object_vars, process_vars, harness_vars>>

\* cleanup_empty_zones goes to the loop without asking
Route53NoPrompt ==
    /\ tool = "route53" /\ cpc = "scanned"
    /\ args.delete /\ empty_zones # <<>>
    /\ ~(~dry_run /\ ~args.force)
    /\ cpc' = "deleting"
    /\ cursor' = 1
    /\ UNCHANGED <<tool, args, account, dry_run, answer, api_calls, cleanup_exit,
                   zone_vars, eip_vars, object_vars, process_vars, harness_vars>>

\* the operator answers: yes or y goes on, anything else returns
Route53Answer ==
    /\ tool = "route53" /\ cpc = "prompt"
    /\ \E response \in Responses :
        /\ answer' = response
        /\ IF Confirmed(response)
             THEN cpc' = "deleting" /\ cursor' = 1
             ELSE cpc' = "cleaned" /\ cursor' = cursor
    /\ UNCHANGED <<tool, args, account, dry_run, api_calls, cleanup_exit,
                   zone_vars, eip_vars, object_vars, process_vars, harness_vars>>

\* the loop ends with its first item
StopsAfterItem(list) == "cleaned"

\* where the loop stands after the item at the cursor
AfterItem(list) == IF cursor = Len(list) THEN "cleaned" ELSE "deleting"

\* one turn of the loop with self.dry_run set: delete_hosted_zone returns True
\* without calling the API
Route53DeleteDryRun ==
    /\ tool = "route53" /\ cpc = "deleting"
    /\ DryRunGuard(dry_run)
    /\ deleted_zones' = Append(deleted_zones, empty_zones[cursor])
    /\ cursor' = cursor + 1
    /\ cpc' = AfterItem(empty_zones)
    /\ UNCHANGED <<tool, args, account, dry_run, answer, api_calls, cleanup_exit,
                   empty_zones, non_empty_zones, failed_deletes, eip_vars, object_vars,
                   process_vars, harness_vars>>

\* one turn of the loop otherwise: the API is called, and what it does decides
\* the list the zone goes to
Route53Delete ==
    /\ tool = "route53" /\ cpc = "deleting"
    /\ ~DryRunGuard(dry_run)
    /\ \E outcome \in CallOutcomes :
        /\ api_calls' = Append(api_calls, [op |-> "delete_hosted_zone",
                                            target |-> empty_zones[cursor].zone_id,
                                            outcome |-> outcome])
        /\ IF outcome = "ok"
             THEN /\ deleted_zones' = Append(deleted_zones, empty_zones[cursor])
                  /\ failed_deletes' = failed_deletes
             ELSE /\ failed_deletes' = Append(failed_deletes, empty_zones[cursor])
                  /\ deleted_zones' = deleted_zones
    /\ cursor' = cursor + 1
    /\ cpc' = AfterItem(empty_zones)
    /\ UNCHANGED <<tool, args, account, dry_run, answer, cleanup_exit, empty_zones,
                   non_empty_zones, eip_vars, object_vars, process_vars, harness_vars>>

\* main: sys.exit(1) if cleanup.failed_deletes else sys.exit(0)
Route53Exit ==
    /\ tool = "route53" /\ cpc = "cleaned"
    /\ cleanup_exit' = IF failed_deletes # <<>> THEN 1 ELSE 0
    /\ cpc' = "exited"
    /\ UNCHANGED <<tool, args, account, dry_run, answer, cursor, api_calls, zone_vars,
                   eip_vars, object_vars, process_vars, harness_vars>>

Route53Next ==
    \/ Route53Scan
    \/ Route53ListFails
    \/ Route53NoCleanup
    \/ Route53Prompt
    \/ Route53NoPrompt
    \/ Route53Answer
    \/ Route53DeleteDryRun
    \/ Route53Delete
    \/ Route53Exit

(***************************************************************************)
(* cleanup-unassociated-elastic-ips.py                                      *)
(***************************************************************************)
UsEast1 == "us-east-1"
EuWest1 == "eu-west-1"
Regions == {UsEast1, EuWest1}

\* --regions is part of this script's command line
EipArgSets ==
    [delete : BOOLEAN, dry_run : BOOLEAN, force : BOOLEAN, regions : {None, <<EuWest1>>}]

\* An address as describe_addresses returns it: a VPC address has an
\* AllocationId, an EC2-Classic address has not; an address in use names
\* its association.
AddressKinds == {"vpc", "classic", "on_instance", "on_interface"}
Address(region, i, kind) ==
    [PublicIp |-> <<region, i>>]
    @@ (IF kind = "classic" THEN <<>> ELSE [AllocationId |-> <<"eipalloc", region, i>>])
    @@ (CASE kind = "on_instance" -> [AssociationId |-> "a", InstanceId |-> "i"]
          [] kind = "on_interface" -> [AssociationId |-> "a", NetworkInterfaceId |-> "eni"]
          [] OTHER -> <<>>)
AddressLists(region, n) ==
    UNION {{[i \in 1..k |-> Address(region, i, ks[i])] : ks \in [1..k -> AddressKinds]}
           : k \in 0..n}
\* what describe_addresses does in one region
RegionAnswers(region, n) ==
    {[call |-> "ok", Addresses |-> as] : as \in AddressLists(region, n)}
    \cup {[call |-> "fails", Addresses |-> <<>>]}
EipAccounts ==
    {[regions_call |-> rc, enabled |-> en, region_name |-> rn,
      addresses |-> (UsEast1 :> us) @@ (EuWest1 :> eu)] :
        rc \in {"ok", "fails"}, en \in {<<UsEast1>>, <<UsEast1, EuWest1>>},
        rn \in {None, EuWest1},
        us \in RegionAnswers(UsEast1, MaxAddresses),
        eu \in {r \in RegionAnswers(EuWest1, 1) :
                  \A i \in DOMAIN r.Addresses : "InstanceId" \notin DOMAIN r.Addresses[i]}}

\* get_all_regions
get_all_regions(a, acct) ==
    IF a.regions # None /\ a.regions # <<>> THEN a.regions
    ELSE IF acct.regions_call = "ok" THEN acct.enabled
    ELSE <<IF acct.region_name # None THEN acct.region_name ELSE UsEast1>>

\* get_elastic_ips: the addresses, or [] when describe_addresses raises
get_elastic_ips(acct, region) ==
    IF acct.addresses[region].call = "ok" THEN acct.addresses[region].Addresses ELSE <<>>

\* is_eip_unassociated
is_eip_unassociated(eip) ==
    /\ "AssociationId" \notin DOMAIN eip
    /\ "InstanceId" \notin DOMAIN eip
    /\ "NetworkInterfaceId" \notin DOMAIN eip

\* scan_elastic_ips: the eip_info of an address
eip_info(eip, region) ==
    [public_ip |-> Get(eip, "PublicIp", "Unknown"),
     allocation_id |-> Get(eip, "AllocationId", "N/A"),
     region |-> region,
     instance_id |-> Get(eip, "InstanceId", None),
     network_interface_id |-> Get(eip, "NetworkInterfaceId", None)]

\* scan_elastic_ips: the eip_info of the addresses of one region that are
\* (free = TRUE) or are not unassociated, in the order listed
RECURSIVE SelectEips(_, _, _)
SelectEips(eips, region, free) ==
    IF eips = <<>> THEN <<>>
    ELSE (IF is_eip_unassociated(Head(eips)) = free
            THEN <<eip_info(Head(eips), region)>> ELSE <<>>)
         \o SelectEips(Tail(eips), region, free)

\* scan_elastic_ips: the same over the regions, in their order
RECURSIVE ScanRegions(_, _, _)
ScanRegions(acct, regions, free) ==
    IF regions = <<>> THEN <<>>
    ELSE SelectEips(get_elastic_ips(acct, Head(regions)), Head(regions), free)
         \o ScanRegions(acct, Tail(regions), free)

\* cleanup_unassociated_eips: the eip_obj rebuilt for release_elastic_ip
eip_obj(eip) ==
    [PublicIp |-> eip.public_ip,
     AllocationId |-> IF eip.allocation_id # "N/A" THEN eip.allocation_id ELSE None]

\* release_elastic_ip: the argument of release_address
ReleaseTarget(obj) ==
    IF obj.AllocationId # None
      THEN [AllocationId |-> obj.AllocationId]
      ELSE [PublicIp |-> obj.PublicIp]

\* main up to the scan
EipScan ==
    /\ tool = "eip" /\ cpc = "start"
    /\ dry_run' = DryRunMode(args)
    /\ unassociated_eips' = ScanRegions(account, get_all_regions(args, account), TRUE)
    /\ associated_eips' = ScanRegions(account, get_all_regions(args, account), FALSE)
    /\ cpc' = "scanned"
    /\ UNCHANGED <<tool, args, account, answer, cursor, api_calls, cleanup_exit,
                   released_eips, failed_releases, zone_vars, object_vars, process_vars,
                   harness_vars>>

\* main: `if args.delete and cleanup.unassociated_eips' is false
EipNoCleanup ==
    /\ tool = "eip" /\ cpc = "scanned"
    /\ ~(args.delete /\ unassociated_eips # <<>>)
    /\ cpc' = "cleaned"
    /\ UNCHANGED <<tool, args, account, dry_run, answer, cursor, api_calls, cleanup_exit,
                   zone_vars, eip_vars, object_vars, process_vars, harness_vars>>

\* cleanup_unassociated_eips asks: not self.dry_run and not skip_confirmation
EipPrompt ==
    /\ tool = "eip" /\ cpc = "scanned"
    /\ args.delete /\ unassociated_eips # <<>>
    /\ ~dry_run /\ ~args.force
    /\ cpc' = "prompt"
    /\ UNCHANGED <<tool, args, account, dry_run, answer, cursor, api_calls, cleanup_exit,
                   zone_vars, eip_vars, object_vars, process_vars, harness_vars>>

\* cleanup_unassociated_eips goes to the loop without asking
EipNoPrompt ==
    /\ tool = "eip" /\ cpc = "scanned"
    /\ args.delete /\ unassociated_eips # <<>>
    /\ ~(~dry_run /\ ~args.force)
    /\ cpc' = "deleting"
    /\ cursor' = 1
    /\ UNCHANGED <<tool, args, account, dry_run, answer, api_calls, cleanup_exit,
                   zone_vars, eip_vars, object_vars, process_vars, harness_vars>>

\* the operator answers: yes or y goes on, anything else returns
EipAnswer ==
    /\ tool = "eip" /\ cpc = "prompt"
    /\ \E response \in Responses :
        /\ answer' = response
        /\ IF Confirmed(response)
             THEN cpc' = "deleting" /\ cursor' = 1
             ELSE cpc' = "cleaned" /\ cursor' = cursor
    /\ UNCHANGED <<tool, args, account, dry_run, api_calls, cleanup_exit,
                   zone_vars, eip_vars, object_vars, process_vars, harness_vars>>

\* one turn of the loop with self.dry_run set: release_elastic_ip returns True
\* without calling the API
EipReleaseDryRun ==
    /\ tool = "eip" /\ cpc = "deleting"
    /\ DryRunGuard(dry_run)
    /\ released_eips' = Append(released_eips, unassociated_eips[cursor])
    /\ cursor' = cursor + 1
    /\ cpc' = AfterItem(unassociated_eips)
    /\ UNCHANGED <<tool, args, account, dry_run, answer, api_calls, cleanup_exit,
                   unassociated_eips, associated_eips, failed_releases, zone_vars,
                   object_vars, process_vars, harness_vars>>

\* one turn of the loop otherwise: release_address is called in the region of
\* the address, and what it does decides the list the address goes to
EipRelease ==
    /\ tool = "eip" /\ cpc = "deleting"
    /\ ~DryRunGuard(dry_run)
    /\ \E outcome \in CallOutcomes :
        /\ api_calls' = Append(api_calls,
                               [op |-> "release_address",
                                target |-> ReleaseTarget(eip_obj(unassociated_eips[cursor])),
                                outcome |-> outcome])
        /\ IF outcome = "ok"
             THEN /\ released_eips' = Append(released_eips, unassociated_eips[cursor])
                  /\ failed_releases' = failed_releases
             ELSE /\ failed_releases' = Append(failed_releases, unassociated_eips[cursor])
                  /\ released_eips' = released_eips
    /\ cursor' = cursor + 1
    /\ cpc' = AfterItem(unassociated_eips)
    /\ UNCHANGED <<tool, args, account, dry_run, answer, cleanup_exit, unassociated_eips,
                   associated_eips, zone_vars, object_vars, process_vars, harness_vars>>

\* main: sys.exit(1) if cleanup.failed_releases else sys.exit(0)
EipExit ==
    /\ tool = "eip" /\ cpc = "cleaned"
    /\ cleanup_exit' = IF failed_releases # <<>> THEN 1 ELSE 0
    /\ cpc' = "exited"
    /\ UNCHANGED <<tool, args, account, dry_run, answer, cursor, api_calls, zone_vars,
                   eip_vars, object_vars, process_vars, harness_vars>>

EipNext ==
    \/ EipScan
    \/ EipNoCleanup
    \/ EipPrompt
    \/ EipNoPrompt
    \/ EipAnswer
    \/ EipReleaseDryRun
    \/ EipRelease
    \/ EipExit

(***************************************************************************)
(* A run of either cleanup script on some command line and some account     *)
(***************************************************************************)
InitCleanup ==
    /\ Constructed
    /\ dest = NoFile
    /\ name = <<>> /\ sanitized = <<>> /\ tags = <<>> /\ tag_text = NoText
    /\ \/ tool = "route53" /\ args \in ArgSets /\ account \in Route53Accounts
       \/ tool = "eip" /\ args \in EipArgSets /\ account \in EipAccounts
    /\ cpc = "start"
    /\ dry_run = TRUE
    /\ answer = None
    /\ cursor = 0
    /\ api_calls = <<>>
    /\ cleanup_exit = None
    /\ empty_zones = <<>>
    /\ non_empty_zones = <<>>
    /\ deleted_zones = <<>>
    /\ failed_deletes = <<>>
    /\ unassociated_eips = <<>>
    /\ associated_eips = <<>>
    /\ released_eips = <<>>
    /\ failed_releases = <<>>

NextCleanup == Route53Next \/ EipNext

SpecCleanup == InitCleanup /\ [][NextCleanup]_vars

(***************************************************************************)
(* Claims                                                                   *)
(***************************************************************************)
\* the first token of a line ("" for an empty line)
FirstToken(line) == IF line = <<>> THEN "" ELSE line[1]

\* the positions of the lines of a text that start with a token, ascending
LinesStarting(text, token) ==
    SelectSeq([i \in 1..Len(text) |-> i], LAMBDA i : FirstToken(text[i]) = token)

\* the members of a set of integers, ascending
RECURSIVE Ascending(_)
Ascending(S) ==
    IF S = {} THEN <<>>
    ELSE LET m == CHOOSE m \in S : \A n \in S : m <= n
         IN  <<m>> \o Ascending(S \ {m})

\* the primary block of the generation that returned last
PrimaryBlock == tf_config[2]

IsMinimal(inst) ==
    /\ DOMAIN inst \subseteq {"ImageId", "InstanceType", "RootDeviceName",
                              "BlockDeviceMappings"} \cup Range(AttributeKeys)
    /\ Get(inst, "UserDataAttribute", <<>>) = <<>>
    /\ Get(inst, "SourceDestCheckAttribute", <<>>) \in {<<>>, [Value |-> TRUE]}
    /\ Get(inst, "DisableApiTerminationAttribute", <<>>) \in {<<>>, [Value |-> FALSE]}
    /\ \A i \in DOMAIN BlockDevices(inst) :
         /\ BlockDevices(inst)[i].DeviceName = RootDeviceName(inst)
         /\ "VirtualName" \notin DOMAIN BlockDevices(inst)[i]

MandatoryTokens ==
    {"resource \"aws_instance\" \"", "  ami           = \"", "  instance_type = \"", "}", ""}

\* the lines of a root_block_device block, its tags map included
RootStorageTokens ==
    {"  root_block_device {", "    volume_type           = \"", "    volume_size           = ",
     "    iops                  = ", "    throughput            = ",
     "    encrypted             = true", "    kms_key_id            = \"",
     "    delete_on_termination = ", "    ", "      ", "  }"}

\* the comment lines every primary block ends with
AdvisoryCommentTokens ==
    {"  # Set volume_tags if you want different tags for volumes", "  # volume_tags = {}",
     "    # Prevent accidental instance replacement",
     "    # ignore_changes = [ami, user_data]"}

LifecycleOpener == "  lifecycle {"

\* C6 as stated: for a minimal description the primary block holds the mandatory
\* lines and no optional field line, and the root-storage block is the only
\* nested block in it.
C6_OnlyRootStorageNested ==
    (pc = "returned" /\ IsMinimal(instance_data)) =>
        \A i \in DOMAIN PrimaryBlock :
            FirstToken(PrimaryBlock[i]) \in
                MandatoryTokens \cup RootStorageTokens \cup AdvisoryCommentTokens

\* C6: for a minimal description the primary block holds the mandatory lines and
\* no optional field line, and its only nested blocks are the root-storage block
\* and the fixed lifecycle placeholder block that ends every primary block.
C6_MinimalBlock ==
    (pc = "returned" /\ IsMinimal(instance_data)) =>
        /\ \A i \in DOMAIN PrimaryBlock :
             FirstToken(PrimaryBlock[i]) \in
                MandatoryTokens \cup RootStorageTokens \cup AdvisoryCommentTokens
                    \cup {LifecycleOpener}
        /\ Len(LinesStarting(PrimaryBlock, LifecycleOpener)) = 1
        /\ Len(LinesStarting(PrimaryBlock, "  root_block_device {")) <= 1

C6_Witness ==
    /\ pc = "returned"
    /\ IsMinimal(instance_data)
    /\ "SourceDestCheckAttribute" \notin DOMAIN instance_data
    /\ Len(LinesStarting(PrimaryBlock, LifecycleOpener)) = 1

\* a root device name, one mapping of that name, and volume-backed mappings only
RootAndVolumesOnly(inst) ==
    /\ RootDeviceName(inst) # ""
    /\ Cardinality({i \in DOMAIN BlockDevices(inst) :
                       BlockDevices(inst)[i].DeviceName = RootDeviceName(inst)}) = 1
    /\ \A i \in DOMAIN BlockDevices(inst) :
         /\ Get(BlockDevices(inst)[i], "Ebs", <<>>) # <<>>
         /\ "VirtualName" \notin DOMAIN BlockDevices(inst)[i]

\* the device names of the mappings that are not the root, in list order
NonRootNames(inst) ==
    LET others == SelectSeq(BlockDevices(inst),
                            LAMBDA bd : bd.DeviceName # RootDeviceName(inst))
    IN  [i \in DOMAIN others |-> others[i].DeviceName]

\* the device names of the ebs_block_device blocks of a text, in emitted order
EbsBlockNames(text) ==
    LET at == LinesStarting(text, "  ebs_block_device {")
    IN  [i \in DOMAIN at |-> text[at[i] + 1][2]]

\* C7: with one volume-backed root mapping and volume-backed other mappings, the
\* primary block holds one root_block_device block, and one ebs_block_device
\* block per other mapping, in list order, none of them for the root device.
C7_RootOnceOthersOnce ==
    (pc = "returned" /\ RootAndVolumesOnly(instance_data)) =>
        /\ Len(LinesStarting(PrimaryBlock, "  root_block_device {")) = 1
        /\ EbsBlockNames(PrimaryBlock) = NonRootNames(instance_data)
        /\ \A i \in DOMAIN EbsBlockNames(PrimaryBlock) :
             EbsBlockNames(PrimaryBlock)[i] # RootDeviceName(instance_data)
        /\ \A i, j \in DOMAIN EbsBlockNames(PrimaryBlock) :
             i # j => EbsBlockNames(PrimaryBlock)[i] # EbsBlockNames(PrimaryBlock)[j]
        /\ LinesStarting(PrimaryBlock, "  ephemeral_block_device {") = <<>>

C7_Witness ==
    /\ pc = "returned"
    /\ RootAndVolumesOnly(instance_data)
    /\ Len(BlockDevices(instance_data)) = 3
    /\ BlockDevices(instance_data)[2].DeviceName = RootName
    /\ EbsBlockNames(PrimaryBlock) = <<"/dev/sdc", "/dev/sdb">>

\* every retrieved interface has an attachment index and no two have the same
DistinctIndices(enis) ==
    /\ \A i \in DOMAIN enis : "DeviceIndex" \in DOMAIN Get(enis[i], "Attachment", <<>>)
    /\ \A i, j \in DOMAIN enis :
         i # j => enis[i].Attachment.DeviceIndex # enis[j].Attachment.DeviceIndex

IndexSet(enis) == {enis[i].Attachment.DeviceIndex : i \in DOMAIN enis}

\* the indices above the lowest, ascending, as the document prints them
SatelliteIndices(enis) ==
    IF enis = <<>> THEN <<>>
    ELSE LET above == Tail(Ascending(IndexSet(enis)))
         IN  [i \in DOMAIN above |-> ToString(above[i])]

\* the second token of the lines of a text that start with a token
SecondTokens(text, token) ==
    LET at == LinesStarting(text, token)
    IN  [i \in DOMAIN at |-> text[at[i]][2]]

\* the id of the interface a standalone interface resource is generated from,
\* read from its subnet line
EmittedSubnets(text) ==
    LET at == LinesStarting(text, "resource \"aws_network_interface\" \"")
    IN  [i \in DOMAIN at |-> text[at[i] + 1][2]]

\* C8: for interfaces with pairwise distinct attachment indices the document
\* holds one interface resource and one attachment block for each interface
\* above the lowest index, in ascending index order whatever the order of the
\* list, and nothing for the interface of the lowest index.
C8_SatellitesAscending ==
    (pc = "returned" /\ DistinctIndices(network_interfaces_data)) =>
        LET expected == SatelliteIndices(network_interfaces_data)
        IN  /\ SecondTokens(full_config, "# Additional Network Interface (device index ")
                 = expected
            /\ SecondTokens(full_config, "  device_index         = ") = expected
            /\ Len(LinesStarting(full_config, "resource \"aws_network_interface\" \""))
                 = Len(expected)
            /\ Len(LinesStarting(full_config,
                                 "resource \"aws_network_interface_attachment\" \""))
                 = Len(expected)
            /\ \A k \in DOMAIN expected :
                 \E i \in DOMAIN network_interfaces_data :
                    /\ ToString(network_interfaces_data[i].Attachment.DeviceIndex)
                         = expected[k]
                    /\ EmittedSubnets(full_config)[k]
                         = network_interfaces_data[i].SubnetId

C8_Witness ==
    /\ pc = "returned"
    /\ Len(network_interfaces_data) = 3
    /\ DistinctIndices(network_interfaces_data)
    /\ network_interfaces_data[1].Attachment.DeviceIndex = 2
    /\ network_interfaces_data[2].Attachment.DeviceIndex = 0
    /\ network_interfaces_data[3].Attachment.DeviceIndex = 1
    /\ SecondTokens(full_config, "  device_index         = ") = <<"1", "2">>

\* the user-data payload of the description ('' when there is none)
Payload == UserDataValue(instance_data)

\* C9: a present user-data payload gives the user_data_base64 line; the decoded
\* comment is there exactly when the payload decodes to fewer than 500
\* characters, with one comment line per line of the decoded text.
C9_CommentUnderLimit ==
    (pc = "returned" /\ Payload.b64 # "") =>
        LET shown == /\ Payload.valid_b64
                     /\ Payload.valid_utf8
                     /\ SumSeq(Payload.lines) + Len(Payload.lines) - 1 < 500
        IN  /\ SecondTokens(PrimaryBlock, "  user_data_base64 = \"") = <<Payload.b64>>
            /\ Len(LinesStarting(PrimaryBlock, "  # Decoded user data:"))
                 = IF shown THEN 1 ELSE 0
            /\ SecondTokens(PrimaryBlock, "  # ")
                 = IF shown
                   THEN [i \in DOMAIN Payload.lines |-> LineOfLength(Payload.lines[i])]
                   ELSE <<>>

C9_Witness ==
    /\ pc = "returned"
    /\ Payload.b64 # ""
    /\ Payload.lines = <<499>>
    /\ Len(LinesStarting(PrimaryBlock, "  # Decoded user data:")) = 1

\* C10: a generation given an output path leaves at the destination the whole
\* document or what was there before the call, and a failure of open, write or
\* close exits with a non-zero status after one open.
C10_SinkAtomic ==
    (output_file # None /\ (pc = "returned" \/ (pc = "exited" /\ error \in {"open", "write", "close"}))) =>
        /\ dest \in {dest_before, full_config}
        /\ opens = 1
        /\ pc = "exited" => exit_code # 0

KeyRank(k) == CHOOSE i \in DOMAIN TagKeys : <<TagKeys[i]>> = k

\* the keys of the entries of an emitted tags block, in emitted order
EmittedKeys(text) == [i \in 1..(Len(text) - 2) |-> <<text[i + 1][2]>>]

\* C2: for every tag list with unique keys, in whatever order it is supplied,
\* the entries of the emitted tags block are in strictly ascending key order.
C2_TagsAscending ==
    tag_text # NoText =>
        \A i, j \in DOMAIN EmittedKeys(tag_text) :
            i < j => KeyRank(EmittedKeys(tag_text)[i]) < KeyRank(EmittedKeys(tag_text)[j])

\* C3: sanitize(sanitize(s)) = sanitize(s) for every label s.
C3_SanitizeIdempotent ==
    Len(sanitized) >= 2 => sanitized[2] = sanitized[1]

\* the one-character lower case of a character (the simple case mapping)
SimpleLower(c) == IF c = CapitalIDot THEN "i" ELSE Lower(c)[1]

\* C4: for a non-empty label every character that is not alphanumeric or
\* underscore becomes one underscore, the others stay in place lower-cased, one
\* underscore is prepended exactly when the first character is a digit; so the
\* result never starts with a digit and holds only lower-case alphanumerics and
\* underscores, and "3-test zone!" gives "_3_test_zone_".
C4_SanitizeShape ==
    (name # <<>> /\ Len(sanitized) >= 1) =>
        LET r == sanitized[1]
            pre == IsDigit(name[1])
            body == IF pre THEN Tail(r) ELSE r
        IN  /\ pre => r[1] = Underscore
            /\ Len(body) = Len(name)
            /\ \A i \in DOMAIN name :
                 i \in DOMAIN body =>
                   body[i] = IF IsAlnum(name[i]) \/ name[i] = Underscore
                             THEN SimpleLower(name[i]) ELSE Underscore
            /\ ~IsDigit(r[1])
            /\ \A i \in DOMAIN r : r[i] \in LowerLetters \cup Digits \cup {Underscore}
            /\ name = ExampleName => r = ExampleSymbol

\* C5: _sanitize_resource_name returns a non-empty symbol for every label, and
\* the fallback symbol "instance" for the empty label.
C5_SanitizeTotal ==
    \A i \in DOMAIN sanitized :
        /\ sanitized[i] # <<>>
        /\ (i = 1 /\ name = <<>>) => sanitized[i] = FallbackName

C5_Witness == name = <<>> /\ Len(sanitized) >= 1 /\ sanitized[1] = FallbackName

\* C11: whatever optional data is missing from a supplied description (volume
\* details, interface details, an empty interface list without instance-level
\* security groups, attribute answers), generate_terraform returns a document:
\* it neither raises nor exits.
C11_GenerationCompletes ==
    instance_data # NoData => pc \notin {"raised", "exited"}

\* C12: while no description has been retrieved nothing is generated, returned,
\* opened or written, and a failed describe_instance or a generate_terraform
\* without description has ended the process with a non-zero exit status.
C12_NoOutputWithoutDescription ==
    /\ instance_data = NoData =>
         /\ runs = <<>>
         /\ full_config = NoText
         /\ tf_config = <<>>
         /\ opens = 0
         /\ dest \in {NoFile, OldContent}
         /\ pc \in {"constructed", "exited"}
    /\ (pc = "exited" /\ error \in {"describe", "no_data"}) =>
         /\ exit_code # 0
         /\ instance_data = NoData
    /\ (runs # <<>> \/ opens > 0) => instance_data # NoData

C12_Witness ==
    /\ pc = "exited"
    /\ error = "describe"
    /\ exit_code = 1
    /\ dest = OldContent
    /\ opens = 0
    /\ runs = <<>>

\* C13: no step of generate_terraform, whether it returns, raises or exits,
\* changes instance_data, volumes_data, network_interfaces_data or
\* elastic_ips_data, and a second generation on the same object at the same
\* clock value returns the document of the first.
C13_DescriptionUnchanged ==
    [][ /\ pc # "constructed" => object_vars' = object_vars
        /\ (Len(runs') = 2 /\ runs'[1].now = runs'[2].now) => runs'[1].doc = runs'[2].doc
      ]_vars

C13_Witness ==
    /\ Len(runs) = 2
    /\ runs[1].now = runs[2].now
    /\ Len(network_interfaces_data) = 2
    /\ network_interfaces_data[1].Attachment.DeviceIndex = 1
    /\ network_interfaces_data[2].Attachment.DeviceIndex = 0
    /\ SecondTokens(full_config, "  device_index         = ") = <<"1">>

\* the first line of each section of a document: header, primary block,
\* floating-address section, network-interface section, recommendations
SectionOpeners ==
    {"# Terraform configuration generated from EC2 instance",
     "resource \"aws_instance\" \"",
     "# Elastic IP for ",
     "# Additional Network Interface (device index ",
     "# Recommendations:"}

\* the position of the first line of every section present in a text
SectionStarts(text) ==
    {LinesStarting(text, t)[1] : t \in {u \in SectionOpeners : LinesStarting(text, u) # <<>>}}

\* C14: in every returned document each section but the first is preceded by
\* exactly one blank line: the line before its first line is empty and the line
\* before that one is not.
C14_OneBlankLineBetweenSections ==
    pc = "returned" =>
        \A p \in SectionStarts(full_config) :
            p > 1 => /\ full_config[p - 1] = <<>>
                     /\ full_config[p - 2] # <<>>

\* the openers of the sections a description must give, in the fixed order
ExpectedSections ==
    << "# Terraform configuration generated from EC2 instance",
       "resource \"aws_instance\" \"" >>
    \o (IF elastic_ips_data # <<>> THEN <<"# Elastic IP for ">> ELSE <<>>)
    \o (IF Len(network_interfaces_data) > 1
        THEN <<"# Additional Network Interface (device index ">> ELSE <<>>)
    \o <<"# Recommendations:">>

\* the openers of the sections of a text, in the order they start
SectionsOf(text) ==
    LET at == Ascending(SectionStarts(text))
    IN  [i \in DOMAIN at |-> FirstToken(text[at[i]])]

\* C15: every returned document starts with the header and ends with the
\* recommendations; its sections are the header, the primary block, the
\* floating-address blocks when there are addresses, the network-interface
\* blocks when there are satellites, and the recommendations, in that order;
\* a section that is empty (the two additional-storage sections always are)
\* adds neither an element nor a separator.
C15_SectionOrder ==
    pc = "returned" =>
        LET rec == LinesStarting(full_config, "# Recommendations:")
        IN  /\ SectionsOf(full_config) = ExpectedSections
            /\ [i \in DOMAIN tf_config |-> FirstToken(tf_config[i][1])] = ExpectedSections
            /\ \A i \in DOMAIN tf_config : tf_config[i] # EmptyStr
            /\ 1 \in SectionStarts(full_config)
            /\ FirstToken(full_config[1]) = ExpectedSections[1]
            /\ Len(rec) = 1
            /\ SubSeq(full_config, rec[1], Len(full_config)) = _generate_variables_recommendation
            /\ \A p \in Range(LinesStarting(full_config, "# Elastic IP for ")) :
                 \A q \in Range(LinesStarting(full_config,
                                  "# Additional Network Interface (device index ")) : p < q
            /\ Len(network_interfaces_data) <= 1 =>
                 /\ full_config[rec[1] - 1] = <<>>
                 /\ full_config[rec[1] - 2] = <<"}">>

C15_Witness ==
    /\ pc = "returned"
    /\ Len(elastic_ips_data) = 2
    /\ Len(network_interfaces_data) = 2
    /\ Len(tf_config) = 5
    /\ SectionsOf(full_config) = ExpectedSections

\* the tokens of a line between its first and its last token
Middle(line) == SubSeq(line, 2, Len(line) - 1)

\* the symbol of the primary block of a document
PrimarySymbol(text) == Middle(text[LinesStarting(text, "resource \"aws_instance\" \"")[1]])

\* the symbol the i-th floating address (counted from 1) must get
EipSymbol(primary, i) ==
    IF i = 1 THEN primary \o <<"_eip">> ELSE primary \o <<"_eip_", ToString(i - 1)>>

\* C16: the document holds one aws_eip block and one aws_eip_association block
\* per floating address, in input order; the first address is named
\* <primary>_eip and the address at position i > 0 <primary>_eip_<i>; each
\* association names the primary block's symbol and its own address's symbol.
C16_EipSymbols ==
    pc = "returned" =>
        LET primary == PrimarySymbol(full_config)
            eipAt == LinesStarting(full_config, "resource \"aws_eip\" \"")
            assocAt == LinesStarting(full_config, "resource \"aws_eip_association\" \"")
        IN  /\ Len(eipAt) = Len(elastic_ips_data)
            /\ Len(assocAt) = Len(elastic_ips_data)
            /\ \A i \in DOMAIN elastic_ips_data :
                 /\ full_config[eipAt[i]]
                      = <<"resource \"aws_eip\" \"">> \o EipSymbol(primary, i) \o <<"\" {">>
                 /\ full_config[assocAt[i]]
                      = <<"resource \"aws_eip_association\" \"">> \o EipSymbol(primary, i)
                          \o <<"_assoc\" {">>
                 /\ full_config[assocAt[i] + 1]
                      = <<"  instance_id   = aws_instance.">> \o primary \o <<".id">>
                 /\ full_config[assocAt[i] + 2]
                      = <<"  allocation_id = aws_eip.">> \o EipSymbol(primary, i) \o <<".id">>
                 /\ eipAt[i] < assocAt[i]
                 /\ i < Len(elastic_ips_data) => assocAt[i] < eipAt[i + 1]

C16_Witness ==
    /\ pc = "returned"
    /\ Len(elastic_ips_data) = 2
    /\ PrimarySymbol(full_config) = <<"w", "e", "b", "_", "1">>
    /\ Middle(full_config[LinesStarting(full_config, "resource \"aws_eip\" \"")[2]])
         = <<"w", "e", "b", "_", "1", "_eip_", "1">>

\* the values (second tokens) of the lines of the primary block that start with a token
Emitted(token) == SecondTokens(PrimaryBlock, token)

\* a scalar line is in the primary block exactly when  present  holds, and then
\* once, carrying  value
Gated(token, present, value) ==
    Emitted(token) = IF present THEN <<value>> ELSE <<>>

\* a flag line (one token, no value) is in the primary block exactly when  set  holds
Flag(token, set) ==
    Len(LinesStarting(PrimaryBlock, token)) = IF set THEN 1 ELSE 0

\* the twelve conditional scalars against the fields of the description
ScalarsGated(inst) ==
    LET placement == Get(inst, "Placement", <<>>)
        arn == Get(Get(inst, "IamInstanceProfile", <<>>), "Arn", <<>>)
    IN  /\ Gated("  key_name      = \"", Get(inst, "KeyName", "") # "", Get(inst, "KeyName", ""))
        /\ Gated("  availability_zone = \"", Get(placement, "AvailabilityZone", "") # "",
                 Get(placement, "AvailabilityZone", ""))
        /\ Gated("  subnet_id     = \"", Get(inst, "SubnetId", "") # "", Get(inst, "SubnetId", ""))
        /\ Gated("  private_ip    = \"", Get(inst, "PrivateIpAddress", "") # "",
                 Get(inst, "PrivateIpAddress", ""))
        /\ Gated("  iam_instance_profile = \"", arn # <<>> /\ arn[Len(arn)] # "",
                 IF arn # <<>> THEN arn[Len(arn)] ELSE "")
        /\ Flag("  source_dest_check = false",
                Get(inst, "SourceDestCheckAttribute", <<>>) = [Value |-> FALSE])
        /\ Flag("  monitoring = true", Get(inst, "Monitoring", <<>>) = [State |-> "enabled"])
        /\ Flag("  ebs_optimized = true", Get(inst, "EbsOptimized", FALSE))
        /\ Flag("  disable_api_termination = true",
                Get(inst, "DisableApiTerminationAttribute", <<>>) = [Value |-> TRUE])
        /\ Gated("  tenancy = \"", Get(placement, "Tenancy", "") \notin {"", "default"},
                 Get(placement, "Tenancy", ""))
        /\ Gated("  placement_group = \"", Get(placement, "GroupName", "") # "",
                 Get(placement, "GroupName", ""))
        /\ Gated("  host_id = \"", Get(placement, "HostId", "") # "", Get(placement, "HostId", ""))

\* the values a member has in the dicts of a list that have it
ValuesOf(dicts, member) ==
    {dicts[i][member] : i \in {j \in DOMAIN dicts : member \in DOMAIN dicts[j]}}

\* every value printed for a volume, a mapping or an interface is a value the
\* description holds for that member
NoInventedValue ==
    LET ebs == [i \in DOMAIN BlockDevices(instance_data) |->
                   Get(BlockDevices(instance_data)[i], "Ebs", <<>>)]
        attachments == [i \in DOMAIN network_interfaces_data |->
                           Get(network_interfaces_data[i], "Attachment", <<>>)]
    IN  /\ \A v \in Range(SecondTokens(full_config, "    volume_size           = ")) :
             \E n \in ValuesOf(volumes_data, "Size") : v = ToString(n)
        /\ \A v \in Range(SecondTokens(full_config, "    volume_type           = \"")) :
             v \in ValuesOf(volumes_data, "VolumeType")
        /\ \A v \in Range(SecondTokens(full_config, "    delete_on_termination = ")) :
             \E b \in ValuesOf(ebs, "DeleteOnTermination") : v = BoolLiteral(b)
        /\ \A v \in Range(SecondTokens(full_config, "  device_index         = ")) :
             \E n \in ValuesOf(attachments, "DeviceIndex") : v = ToString(n)
        /\ \A v \in Range(SecondTokens(full_config, "  subnet_id       = \"")) :
             v \in ValuesOf(network_interfaces_data, "SubnetId")

\* C17: each conditional scalar line of the primary block is there exactly
\* when its field is present and not at its default, and no line of the
\* document carries a value that the description does not hold.
C17_PresenceOnlyGate ==
    pc = "returned" => ScalarsGated(instance_data) /\ NoInventedValue


\* C18: dry run never deletes. In both cleanup scripts self.dry_run is true for
\* every command line except --delete without --dry-run, and while it is true
\* no delete_hosted_zone and no release_address call has been issued, whatever
\* the scan found and however far the run has got.
C18_DryRunNeverDeletes ==
    cpc # "start" =>
        /\ dry_run = ~(args.delete /\ ~args.dry_run)
        /\ dry_run => api_calls = <<>>

\* both switches given, candidates found, the loop ran over all of them, and
\* nothing was called
C18_Witness ==
    /\ cpc = "exited"
    /\ args.delete /\ args.dry_run
    /\ dry_run
    /\ cursor > 1
    /\ (empty_zones # <<>> \/ unassociated_eips # <<>>)
    /\ api_calls = <<>>


\* a root device name that exactly one mapping carries
OneRootMapping(inst) ==
    /\ RootDeviceName(inst) # ""
    /\ Cardinality({i \in DOMAIN BlockDevices(inst) :
                       Get(BlockDevices(inst)[i], "DeviceName", None) = RootDeviceName(inst)}) = 1

\* the mapping that carries the root device name
RootMapping(inst) ==
    BlockDevices(inst)[CHOOSE i \in DOMAIN BlockDevices(inst) :
                         Get(BlockDevices(inst)[i], "DeviceName", None) = RootDeviceName(inst)]

\* C19: whenever exactly one mapping carries the root device name, be it
\* volume-backed, with an empty volume reference or virtual-only, the primary
\* block holds exactly one root_block_device block.
C19_OneRootBlock ==
    (pc = "returned" /\ OneRootMapping(instance_data)) =>
        Len(LinesStarting(PrimaryBlock, "  root_block_device {")) = 1

\* the same restricted to a root mapping with a non-empty volume reference
C19_VolumeBackedRoot ==
    (pc = "returned" /\ OneRootMapping(instance_data)
       /\ Get(RootMapping(instance_data), "Ebs", <<>>) # <<>>) =>
        Len(LinesStarting(PrimaryBlock, "  root_block_device {")) = 1


\* the device names of the ephemeral_block_device blocks of a text, in emitted order
EphemeralBlockNames(text) ==
    LET at == LinesStarting(text, "  ephemeral_block_device {")
    IN  [i \in DOMAIN at |-> text[at[i] + 1][2]]

\* how often a value occurs in a sequence
Occurrences(s, v) == Cardinality({i \in DOMAIN s : s[i] = v})

\* the kind the partition gives a mapping: root-storage for the root entry,
\* additional storage for another entry with a volume reference, ephemeral for
\* an entry without
KindOf(inst, bd) ==
    IF RootDeviceName(inst) # "" /\ bd.DeviceName = RootDeviceName(inst) THEN "root"
    ELSE IF Get(bd, "Ebs", <<>>) # <<>> THEN "ebs"
    ELSE "ephemeral"

\* the blocks of each kind the primary block holds for a mapping
BlocksFor(inst, bd) ==
    [root |-> IF RootDeviceName(inst) # "" /\ bd.DeviceName = RootDeviceName(inst)
                THEN Len(LinesStarting(PrimaryBlock, "  root_block_device {")) ELSE 0,
     ebs |-> Occurrences(EbsBlockNames(PrimaryBlock), bd.DeviceName),
     ephemeral |-> Occurrences(EphemeralBlockNames(PrimaryBlock), bd.DeviceName)]

Partitioned(inst, bd) ==
    \A kind \in {"root", "ebs", "ephemeral"} :
        BlocksFor(inst, bd)[kind] = IF kind = KindOf(inst, bd) THEN 1 ELSE 0

\* a mapping with a non-empty volume reference and no virtual-device name, or
\* a mapping other than the root with a virtual-device name and no volume reference
PureMapping(inst, bd) ==
    \/ Get(bd, "Ebs", <<>>) # <<>> /\ "VirtualName" \notin DOMAIN bd
    \/ /\ "Ebs" \notin DOMAIN bd /\ "VirtualName" \in DOMAIN bd
       /\ bd.DeviceName # RootDeviceName(inst)

\* C20: every mapping of the description is rendered as exactly one block of
\* exactly one kind (the root entry as root_block_device, any other entry with
\* a volume reference as ebs_block_device, an entry without as
\* ephemeral_block_device); none is rendered under two kinds, none is dropped.
C20_BlockDevicePartition ==
    pc = "returned" =>
        \A i \in DOMAIN BlockDevices(instance_data) :
            Partitioned(instance_data, BlockDevices(instance_data)[i])

\* the same for the descriptions whose mappings are all pure
C20_PureMappingsPartitioned ==
    (pc = "returned" /\ \A i \in DOMAIN BlockDevices(instance_data) :
                           PureMapping(instance_data, BlockDevices(instance_data)[i])) =>
        \A i \in DOMAIN BlockDevices(instance_data) :
            Partitioned(instance_data, BlockDevices(instance_data)[i])


\* the attachment indices present in a list of interfaces
IndicesPresent(enis) ==
    {enis[i].Attachment.DeviceIndex :
        i \in {j \in DOMAIN enis : "DeviceIndex" \in DOMAIN Get(enis[j], "Attachment", <<>>)}}

\* the interface a standalone interface resource was generated from (by its subnet)
SourceOf(enis, subnet) == enis[CHOOSE i \in DOMAIN enis : enis[i].SubnetId = subnet]

\* the k-th satellite of the document is generated from an interface attached
\* strictly above the lowest index present, and its attachment block prints
\* that interface's index
ProperSatellite(enis, k) ==
    LET eni == SourceOf(enis, EmittedSubnets(full_config)[k])
    IN  /\ "DeviceIndex" \in DOMAIN Get(eni, "Attachment", <<>>)
        /\ \E low \in IndicesPresent(enis) : low < eni.Attachment.DeviceIndex
        /\ SecondTokens(full_config, "  device_index         = ")[k]
             = ToString(eni.Attachment.DeviceIndex)

\* C21: no satellite at the minimum index. Whatever the list of interfaces
\* (two sharing the lowest index, one without an index), only interfaces
\* attached strictly above the lowest index present are rendered as satellite
\* resources, and every attachment block prints the index of its interface.
C21_NoSatelliteAtMinimum ==
    pc = "returned" =>
        \A k \in DOMAIN EmittedSubnets(full_config) :
            ProperSatellite(network_interfaces_data, k)

\* the same for interfaces that all have an index, no two the same
C21_DistinctIndicesProper ==
    (pc = "returned" /\ DistinctIndices(network_interfaces_data)) =>
        \A k \in DOMAIN EmittedSubnets(full_config) :
            ProperSatellite(network_interfaces_data, k)


\* the interfaces the description lists
ListedEnis(inst) == Get(inst, "NetworkInterfaces", <<>>)

\* every listed interface has security groups and an attachment index, no two
\* the same index
PlainInterfaces(inst) ==
    /\ ListedEnis(inst) # <<>>
    /\ \A i \in DOMAIN ListedEnis(inst) : Get(ListedEnis(inst)[i], "Groups", <<>>) # <<>>
    /\ DistinctIndices(ListedEnis(inst))

\* the listed interface attached at the lowest index
LowestEni(inst) ==
    ListedEnis(inst)[CHOOSE i \in DOMAIN ListedEnis(inst) :
                        \A j \in DOMAIN ListedEnis(inst) :
                            ListedEnis(inst)[i].Attachment.DeviceIndex
                              <= ListedEnis(inst)[j].Attachment.DeviceIndex]

\* what the vpc_security_group_ids line of the primary block prints (<<>>: no line)
PrimaryGroups ==
    LET at == LinesStarting(PrimaryBlock, "  vpc_security_group_ids = ")
    IN  IF at = <<>> THEN <<>> ELSE Tail(PrimaryBlock[at[1]])

\* an interface is represented by the primary block when the block prints its
\* security groups, and as a satellite when an interface resource has its subnet
InPrimary(eni) == PrimaryGroups = JsonDumps(GroupIds(eni.Groups))
AsSatellite(eni) == \E k \in DOMAIN EmittedSubnets(full_config) :
                       EmittedSubnets(full_config)[k] = eni.SubnetId

RepresentedOnce(inst) ==
    /\ InPrimary(LowestEni(inst))
    /\ \A i \in DOMAIN ListedEnis(inst) :
         InPrimary(ListedEnis(inst)[i]) # AsSatellite(ListedEnis(inst)[i])

\* C22: one primary interface. The security groups of the primary block are
\* those of the interface attached at the lowest index, the one the satellite
\* generation skips, and every listed interface is represented exactly once,
\* by the primary block or as a satellite, in whatever order the interfaces
\* are listed and also when the details of one could not be retrieved.
C22_OnePrimaryInterface ==
    (pc = "returned" /\ PlainInterfaces(instance_data)) => RepresentedOnce(instance_data)

\* the same when the interfaces are listed lowest index first and the details
\* of all of them were retrieved
C22_LowestFirstRepresentedOnce ==
    (pc = "returned" /\ PlainInterfaces(instance_data)
       /\ LowestEni(instance_data) = ListedEnis(instance_data)[1]
       /\ Len(network_interfaces_data) = Len(ListedEnis(instance_data))) =>
        RepresentedOnce(instance_data)


\* the description without its user data
WithoutUserData(inst) == [k \in DOMAIN inst \ {"UserDataAttribute"} |-> inst[k]]

\* a text without its lines from a to b
CutOut(text, a, b) == SubSeq(text, 1, a - 1) \o SubSeq(text, b + 1, Len(text))

\* the position of the user_data_base64 line of the primary block
EncodedAt == LinesStarting(PrimaryBlock, "  user_data_base64 = \"")[1]

\* C23: a user-data payload that cannot be decoded raises nothing: the
\* generation returns, the encoded line is there, no heading and no line of
\* decoded comment is there, and all the rest of the primary block is what the
\* same description gives without user data.
C23_DecodeFailureSwallowed ==
    (/\ Payload.b64 # ""
     /\ (~Payload.valid_b64 \/ ~Payload.valid_utf8)
     /\ ~InstanceResourceRaises(instance_data)) =>
        /\ pc \notin {"raised", "exited"}
        /\ pc = "returned" =>
            /\ SecondTokens(PrimaryBlock, "  user_data_base64 = \"") = <<Payload.b64>>
            /\ LinesStarting(PrimaryBlock, "  # Decoded user data:") = <<>>
            /\ LinesStarting(PrimaryBlock, "  # ") = <<>>
            /\ CutOut(PrimaryBlock, EncodedAt - 2, EncodedAt)
                 = _generate_instance_resource(WithoutUserData(instance_data), volumes_data,
                                               InstanceId)

\* an undecodable payload on an instance with storage blocks and tags, generated
C23_Witness ==
    /\ pc = "returned"
    /\ Payload.b64 # ""
    /\ ~Payload.valid_utf8
    /\ Len(LinesStarting(PrimaryBlock, "  user_data_base64 = \"")) = 1
    /\ Len(LinesStarting(PrimaryBlock, "  root_block_device {")) = 1
    /\ Len(LinesStarting(PrimaryBlock, "  ephemeral_block_device {")) = 1
    /\ \E i \in DOMAIN PrimaryBlock : PrimaryBlock[i] = <<Spaces(2), "tags = {">>


\* the sub-fields of MetadataOptions the block can list, with the token that
\* opens their line
MetadataTokens ==
    [HttpEndpoint |-> "    http_endpoint               = \"",
     HttpTokens |-> "    http_tokens                 = \"",
     HttpPutResponseHopLimit |-> "    http_put_response_hop_limit = ",
     InstanceMetadataTags |-> "    instance_metadata_tags      = \""]

\* the sub-fields the metadata_options block of the primary block lists
MetadataListed ==
    {k \in DOMAIN MetadataTokens : LinesStarting(PrimaryBlock, MetadataTokens[k]) # <<>>}

\* the five constructs in the order of the claim, by the token of their first line
NestedOpeners ==
    << "  credit_specification {", "  metadata_options {", "  enclave_options {",
       "  capacity_reservation_specification {", "  hibernation = true" >>

\* how often each construct is in the primary block
NestedCount(k) == Len(LinesStarting(PrimaryBlock, NestedOpeners[k]))

\* each construct at most once, only for a source field that is present (true
\* for the two flags), and in the order credit, metadata, enclave, capacity,
\* hibernation
NestedGatedAndOrdered(inst) ==
    /\ \A k \in 1..5 : NestedCount(k) <= 1
    /\ NestedCount(1) = 1 => "CreditSpecification" \in DOMAIN inst
    /\ NestedCount(2) = 1 => "MetadataOptions" \in DOMAIN inst
    /\ NestedCount(3) = 1 => Get(Get(inst, "EnclaveOptions", <<>>), "Enabled", FALSE)
    /\ NestedCount(4) = 1 => "CapacityReservationSpecification" \in DOMAIN inst
    /\ NestedCount(5) = 1 => Get(Get(inst, "HibernationOptions", <<>>), "Configured", FALSE)
    /\ \A j, k \in 1..5 :
         (j < k /\ NestedCount(j) = 1 /\ NestedCount(k) = 1) =>
            LinesStarting(PrimaryBlock, NestedOpeners[j])[1]
              < LinesStarting(PrimaryBlock, NestedOpeners[k])[1]

\* C24: each of the credit, metadata, enclave and capacity-reservation blocks
\* and the hibernation flag line is emitted only for a source field that is
\* present (true), in that order, and the metadata block lists exactly the
\* sub-fields that are set on MetadataOptions, whatever their value, a hop
\* limit of 0 included.
C24_NestedBlocksListSetFields ==
    pc = "returned" =>
        /\ NestedGatedAndOrdered(instance_data)
        /\ NestedCount(2) = 1 =>
             MetadataListed = DOMAIN instance_data.MetadataOptions \cap DOMAIN MetadataTokens

\* the same with the sub-fields whose value is truthy in place of those that are set
C24_TruthyFieldsListed ==
    pc = "returned" =>
        /\ NestedGatedAndOrdered(instance_data)
        /\ NestedCount(2) = 1 =>
             MetadataListed =
                {k \in DOMAIN instance_data.MetadataOptions \cap DOMAIN MetadataTokens :
                    instance_data.MetadataOptions[k]
                      # (IF k = "HttpPutResponseHopLimit" THEN 0 ELSE "")}


\* the root and additional storage blocks of the primary block
StorageBlockCount ==
    Len(LinesStarting(PrimaryBlock, "  root_block_device {"))
      + Len(LinesStarting(PrimaryBlock, "  ebs_block_device {"))

\* the Ebs members the storage blocks are generated from, in the order of the
\* blocks: the root first
RenderedEbs(inst) ==
    (IF RootBlockLines(inst, <<>>) # <<>> THEN <<RootVolume(inst)>> ELSE <<>>)
    \o [i \in DOMAIN EbsDevices(inst) |-> EbsDevices(inst)[i].Ebs]

\* the details retrieved for the volume of an Ebs member (<<>>: none)
DetailsOf(ebs) == FindVolume(volumes_data, Get(ebs, "VolumeId", None))

\* the values a line of the storage blocks prints, block by block
PrintedValues(token) == SecondTokens(PrimaryBlock, token)

\* the optional lines are there for the volumes that have the member and no others
OptionalVolumeLines(inst) ==
    /\ Len(PrintedValues("    iops                  = "))
         <= Cardinality({i \in DOMAIN RenderedEbs(inst) :
                            "Iops" \in DOMAIN DetailsOf(RenderedEbs(inst)[i])})
    /\ Len(PrintedValues("    throughput            = "))
         <= Cardinality({i \in DOMAIN RenderedEbs(inst) :
                            "Throughput" \in DOMAIN DetailsOf(RenderedEbs(inst)[i])})
    /\ Len(LinesStarting(PrimaryBlock, "    encrypted             = true"))
         = Cardinality({i \in DOMAIN RenderedEbs(inst) :
                            Get(DetailsOf(RenderedEbs(inst)[i]), "Encrypted", FALSE)})
    /\ Len(PrintedValues("    kms_key_id            = \""))
         <= Cardinality({i \in DOMAIN RenderedEbs(inst) :
                            "KmsKeyId" \in DOMAIN DetailsOf(RenderedEbs(inst)[i])})
    /\ Cardinality({i \in DOMAIN PrimaryBlock : PrimaryBlock[i] = <<Spaces(4), "tags = {">>})
         = Cardinality({i \in DOMAIN RenderedEbs(inst) :
                            Get(DetailsOf(RenderedEbs(inst)[i]), "Tags", <<>>) # <<>>})

StorageBlockFields(inst) ==
    /\ StorageBlockCount = Len(RenderedEbs(inst))
    /\ PrintedValues("    volume_type           = \"")
         = [i \in DOMAIN RenderedEbs(inst) |->
              Get(DetailsOf(RenderedEbs(inst)[i]), "VolumeType", "gp2")]
    /\ PrintedValues("    volume_size           = ")
         = [i \in DOMAIN RenderedEbs(inst) |->
              ToString(Get(DetailsOf(RenderedEbs(inst)[i]), "Size", 8))]
    /\ Len(PrintedValues("    delete_on_termination = ")) = StorageBlockCount
    /\ \A i \in DOMAIN PrintedValues("    delete_on_termination = ") :
         PrintedValues("    delete_on_termination = ")[i] \in {"true", "false"}
    /\ OptionalVolumeLines(inst)

\* C25: every root or additional storage block holds a volume_type line and a
\* volume_size line, gp2 and 8 when the value is unknown (also when no details
\* were retrieved for the volume), one delete_on_termination line printing
\* true or false, and the optional lines only for volumes that have the member.
C25_StorageBlockFields ==
    pc = "returned" => StorageBlockFields(instance_data)

\* the same when the details of every rendered volume were retrieved
C25_RetrievedVolumeFields ==
    (pc = "returned"
       /\ \A i \in DOMAIN RenderedEbs(instance_data) :
            DetailsOf(RenderedEbs(instance_data)[i]) # NoVolume) =>
        StorageBlockFields(instance_data)


\* the zone of the account with an id
ZoneById(id) == account.zones[CHOOSE i \in DOMAIN account.zones : account.zones[i].Id = id]

\* the record listing of a zone came back whole and holds NS and SOA records only
ListedWholeAndEmpty(zone) ==
    /\ zone.fails_at = 0
    /\ \A p \in DOMAIN zone.pages : \A r \in DOMAIN zone.pages[p] :
         zone.pages[p][r] \in {"NS", "SOA"}

\* every zone classified as empty, and every zone a delete_hosted_zone call
\* was issued for, satisfies a condition
CandidatesAll(Ok(_)) ==
    /\ \A i \in DOMAIN empty_zones : Ok(ZoneById(empty_zones[i].zone_id))
    /\ \A c \in DOMAIN api_calls : Ok(ZoneById(api_calls[c].target))

\* C26: a zone is classified as empty, and passed to delete_hosted_zone, only
\* if its records were listed completely and all of them are NS or SOA; a zone
\* whose listing failed, on the first page or on a later one, never is.
C26_EmptyOnlyIfListed ==
    (tool = "route53" /\ cpc # "start") => CandidatesAll(ListedWholeAndEmpty)

\* the same for the accounts in which no record listing fails
C26_NoFailureClassification ==
    (tool = "route53" /\ cpc # "start"
       /\ \A i \in DOMAIN account.zones : account.zones[i].fails_at = 0) =>
        CandidatesAll(ListedWholeAndEmpty)


\* the answers that say yes or y, whatever their case and the blanks around them
Affirmative == { <<"y">>, <<"Y">>, <<"y", "e", "s">>, <<Space, "Y", "E", "S", Space>> }

\* what the scan recorded as candidates, as the argument the API call gets
ScannedTargets ==
    IF tool = "route53"
      THEN {empty_zones[i].zone_id : i \in DOMAIN empty_zones}
      ELSE {ReleaseTarget(eip_obj(unassociated_eips[i])) : i \in DOMAIN unassociated_eips}

NothingProcessed ==
    /\ api_calls = <<>>
    /\ deleted_zones = <<>> /\ failed_deletes = <<>>
    /\ released_eips = <<>> /\ failed_releases = <<>>

\* C27: confirmation before deletion. With --delete and without --force no
\* delete_hosted_zone or release_address call is issued unless the operator
\* was asked and answered yes or y; any other answer ends the cleanup with no
\* call and with empty deleted/released and failed lists; and a call is only
\* ever issued for an item the scan recorded.
C27_ConfirmationBeforeDeletion ==
    cpc \notin {"idle", "start"} =>
        /\ (args.delete /\ ~args.force /\ api_calls # <<>>) =>
              (answer # None /\ answer \in Affirmative)
        /\ (answer # None /\ answer \notin Affirmative) =>
              NothingProcessed /\ cpc \in {"cleaned", "exited"}
        /\ \A c \in DOMAIN api_calls : api_calls[c].target \in ScannedTargets

\* asked, answered YES between blanks, and a call issued for every candidate
C27_Witness ==
    /\ cpc = "exited"
    /\ args.delete /\ ~args.force
    /\ answer # None
    /\ answer = <<Space, "Y", "E", "S", Space>>
    /\ Len(api_calls) = Cardinality(ScannedTargets)
    /\ Len(api_calls) = 2


\* the scan came to its end
ScanCompleted == cpc \in {"scanned", "prompt", "deleting", "cleaned"}
                   \/ (cpc = "exited" /\ (tool = "route53" => account.listing = "ok"))

\* the cleanup ran over its list to the end: it was entered, not cancelled at
\* the prompt, and main has come past it
CleanupCompleted(candidates) ==
    /\ cpc \in {"cleaned", "exited"}
    /\ ScanCompleted
    /\ args.delete /\ candidates # <<>>
    /\ ~(answer # None /\ answer \notin Affirmative)

\* every element of the set occurs once in the two lists together
ExactlyOneOf(S, first, second) ==
    \A x \in S : Occurrences(first, x) + Occurrences(second, x) = 1

\* the ids of the zones the account lists
ListedZoneIds == {account.zones[i].Id : i \in DOMAIN account.zones}

\* the public addresses describe_addresses returned in the regions scanned
ListedAddresses ==
    LET regions == get_all_regions(args, account)
    IN  UNION {{account.addresses[regions[r]].Addresses[i].PublicIp :
                   i \in DOMAIN account.addresses[regions[r]].Addresses} :
               r \in {q \in DOMAIN regions : account.addresses[regions[q]].call = "ok"}}

ZoneIds(zones) == [i \in DOMAIN zones |-> zones[i].zone_id]
PublicIps(eips) == [i \in DOMAIN eips |-> eips[i].public_ip]

Route53Bookkeeping ==
    /\ ScanCompleted =>
         ExactlyOneOf(ListedZoneIds, ZoneIds(empty_zones), ZoneIds(non_empty_zones))
    /\ CleanupCompleted(empty_zones) =>
         ExactlyOneOf(Range(empty_zones), deleted_zones, failed_deletes)
    /\ (cpc = "exited" /\ ScanCompleted) => (cleanup_exit # 0 <=> failed_deletes # <<>>)

EipBookkeeping ==
    /\ ScanCompleted =>
         ExactlyOneOf(ListedAddresses, PublicIps(unassociated_eips), PublicIps(associated_eips))
    /\ CleanupCompleted(unassociated_eips) =>
         ExactlyOneOf(Range(unassociated_eips), released_eips, failed_releases)
    /\ (cpc = "exited" /\ ScanCompleted) => (cleanup_exit # 0 <=> failed_releases # <<>>)

CsvStatus(zone) == IF \E i \in DOMAIN deleted_zones : deleted_zones[i] = zone
                     THEN "Deleted" ELSE "Empty"

\* export_to_json: metadata.deleted_zones; print_summary: "Zones deleted"
ReportedDeleted == Len(deleted_zones)

\* the API calls that went through
SucceededCalls == {c \in DOMAIN api_calls : api_calls[c].outcome = "ok"}

\* a delete_hosted_zone call for the zone went through
ZoneDeleted(zone) ==
    \E c \in SucceededCalls :
        api_calls[c].op = "delete_hosted_zone" /\ api_calls[c].target = zone.zone_id

\* a release_address call for the address went through
AddressReleased(eip) ==
    \E c \in SucceededCalls :
        api_calls[c].op = "release_address"
          /\ api_calls[c].target = ReleaseTarget(eip_obj(eip))

ReportsAreReal ==
    /\ \A i \in DOMAIN deleted_zones : ZoneDeleted(deleted_zones[i])
    /\ \A i \in DOMAIN empty_zones :
         CsvStatus(empty_zones[i]) = "Deleted" => ZoneDeleted(empty_zones[i])
    /\ tool = "route53" => ReportedDeleted = Cardinality(SucceededCalls)
    /\ \A i \in DOMAIN released_eips : AddressReleased(released_eips[i])
    /\ tool = "eip" => Len(released_eips) = Cardinality(SucceededCalls)

\* C29: reported deletions are real. A zone is in deleted_zones, is reported as
\* Deleted in the CSV and is counted as deleted in the JSON and the summary,
\* only if a delete_hosted_zone call for it was issued and succeeded, and
\* released_eips holds only addresses whose release_address call succeeded,
\* for every combination of switches, --delete with --dry-run included.
C29_ReportedDeletionsReal ==
    cpc \notin {"idle", "start"} => ReportsAreReal

\* the same for the runs that are not dry runs
C29_RealRunsReportReal ==
    (cpc \notin {"idle", "start"} /\ ~dry_run) => ReportsAreReal


\* the symbols (or referenced symbols) of the lines of the document that start
\* with a token, in document order
SymbolsAt(token) ==
    [i \in DOMAIN LinesStarting(full_config, token) |->
        Middle(full_config[LinesStarting(full_config, token)[i]])]

PairwiseDistinct(s) == \A i, j \in DOMAIN s : i # j => s[i] # s[j]

\* the tokens opening the resource blocks, one per resource type
ResourceOpeners ==
    { "resource \"aws_instance\" \"", "resource \"aws_eip\" \"",
      "resource \"aws_eip_association\" \"", "resource \"aws_network_interface\" \"",
      "resource \"aws_network_interface_attachment\" \"" }

\* the tokens opening a reference, with the opener of the blocks referred to
ReferenceOpeners ==
    { <<"  instance_id   = aws_instance.", "resource \"aws_instance\" \"">>,
      <<"  allocation_id = aws_eip.", "resource \"aws_eip\" \"">>,
      <<"  instance_id          = aws_instance.", "resource \"aws_instance\" \"">>,
      <<"  network_interface_id = aws_network_interface.",
        "resource \"aws_network_interface\" \"">> }

SymbolsDistinct == \A opener \in ResourceOpeners : PairwiseDistinct(SymbolsAt(opener))

ReferencesDefined ==
    \A ref \in ReferenceOpeners :
        \A i \in DOMAIN SymbolsAt(ref[1]) : SymbolsAt(ref[1])[i] \in Range(SymbolsAt(ref[2]))

\* C30: symbol integrity. No two resource blocks of one type in the document
\* have the same symbol, also when interfaces share or lack an attachment
\* index, and every aws_instance, aws_eip or aws_network_interface reference of
\* an association or attachment block names a block of the document.
C30_SymbolIntegrity ==
    pc = "returned" => SymbolsDistinct /\ ReferencesDefined

\* the references alone
C30_ReferencesDefined ==
    pc = "returned" => ReferencesDefined

\* the same as C30 when every interface has an index and no two the same
C30_DistinctIndicesIntegrity ==
    (pc = "returned" /\ DistinctIndices(network_interfaces_data)) =>
        SymbolsDistinct /\ ReferencesDefined

====
